---- MODULE Spec2Model ----
(***************************************************************************)
(* A model of the korg-tools decoders, of the package dispatcher, of the    *)
(* sample classifier, of the program linker and of the SoundFont2          *)
(* serializer.                                                             *)
(*                                                                         *)
(* Byte buffers are sequences of 0..255; a Python index p is position p+1. *)
(* Text (sample names, file names) is a sequence of character codes.       *)
(* Each component has its own variables, its own initial predicate and its *)
(* own specification; a specification leaves the other components idle.    *)
(***************************************************************************)
EXTENDS Integers, Sequences, FiniteSets, TLC

VARIABLES
    data,        \* PCMParser.parse: the container's bytes
    filename,    \* PCMParser.parse: the source file name
    samples,     \* PCMParser.parse: the list of SampleInfo returned
    pcm_pc,      \* "start" before the call, then the path the call took
    ksf_data,    \* KSFParser.parse: the file's bytes
    stat_like,   \* KSFParser._looks_like_audio: the verdict of its statistics
    ksf_result,  \* KSFParser.parse: <<>> for None, <<s>> for a SampleInfo s
    ksf_pc,      \* "start" before the call, "done" after it
    writer,      \* SF2Writer: its samples, instruments and presets
    sf_file,     \* the file save wrote last: <<>> for none, <<b>> for bank b
    sf_ok,       \* what the last save or export returned; "none" before it
    sf_calls,    \* the number of calls made on the writer
    sf_pc,       \* "open", "saved" right after save, "exported" after export
    pkg_samples, \* SetPackage.samples
    ms_zones,    \* Multisample.zones
    ms_samples,  \* Multisample.samples
    ms_found,    \* get_sample_for_note: <<>> for None, <<s>> for sample s
    ms_hit,      \* the zone whose sample was returned, 0 for None
    ms_note,     \* the (note, velocity) of the last lookup
    ms_pc,       \* "parsed", "linked" after the linking pass, "looked"
    kmp_data,    \* KMPParser.parse: the file's bytes
    kmp_result,  \* KMPParser.parse: <<>> for None, <<m>> for a Multisample m
    kmp_pc,      \* "start" before the call, "done" after it
    cl_name,     \* classify_sample: the name of the last call
    cl_context,  \* classify_sample: the sibling names of the last call
    cl_result,   \* classify_sample: <<>> before any call, then <<result>>
    cl_last,     \* what the call before the last returned, as cl_result
    cl_calls,    \* the number of classify_sample calls made
    cl_samples,  \* classify_all_samples: the sample list
    cl_before,   \* the sample list as it was before the last run
    cl_runs,     \* the number of classify_all_samples runs made
    lk_programs, \* ProgramSampleLinker.programs, as names
    lk_samples,  \* ProgramSampleLinker.samples, as names
    lk_links,    \* ProgramSampleLinker.links: program name -> link
    lk_pc,       \* "loaded" before link_all, "linked" after it
    set_path,    \* the path given: missing, a file's bytes, or a directory
    set_like,    \* KSFParser._looks_like_audio: the verdict of its statistics
    set_op,      \* the entry point called: parse, parse_file or parse_folder
    set_result,  \* what it returned: <<>> for None, <<p>> for a SetPackage p
    set_raised,  \* the exception it raised, "" for none
    set_pc,      \* "start" before the call, "done" after it
    pcg_data,    \* PCGParser.parse: the bank's bytes
    pcg_result,  \* PCGParser.parse: the list of Program returned
    pcg_pc,      \* "start" before the call, "done" after it
    scan_data,      \* the buffer a scan loop runs over
    scan_kind,      \* the loop: "chunks", "runs" or "names"
    scan_pos,       \* the cursor pos of the loop
    scan_count,     \* the programs found so far
    scan_pc,        \* "loop" before an iteration, "done" after the loop
    ap_state,        \* AudioPlayer.state: "STOPPED", "PLAYING" or "PAUSED"
    ap_channel,      \* _current_channel: "None" or "channel"
    ap_has_callback, \* _on_playback_complete is set
    ap_pc,           \* where the caller is inside play_sample, stop, pause or resume; "idle" between calls
    ap_loop,         \* should_loop of the play_sample call under way
    ap_calls,        \* the play_sample calls begun
    ap_current,      \* the call whose sound went to the mixer last, 0 for none
    ap_mon,          \* for each call, where its monitor thread is; "none" before it starts
    mix_busy,        \* the mixer channel holds a sound, playing or paused
    mix_paused,      \* the mixer is paused
    mix_loops,       \* the sound on the channel repeats for ever
    ap_ended,        \* the calls whose sound played to its end
    ap_notified      \* for each call, the runs of the callback while its sound was the last one played

pcmVars == <<data, filename, samples, pcm_pc>>

ksfVars == <<ksf_data, stat_like, ksf_result, ksf_pc>>

sfVars == <<writer, sf_file, sf_ok, sf_calls, sf_pc>>

msVars == <<pkg_samples, ms_zones, ms_samples, ms_found, ms_hit, ms_note, ms_pc>>

kmpVars == <<kmp_data, kmp_result, kmp_pc>>

clsVars == <<cl_name, cl_context, cl_result, cl_last, cl_calls, cl_samples, cl_before, cl_runs>>

lkVars == <<lk_programs, lk_samples, lk_links, lk_pc>>

setVars == <<set_path, set_like, set_op, set_result, set_raised, set_pc>>

pcgVars == <<pcg_data, pcg_result, pcg_pc>>

scanVars == <<scan_data, scan_kind, scan_pos, scan_count, scan_pc>>

apVars == <<ap_state, ap_channel, ap_has_callback, ap_pc, ap_loop, ap_calls, ap_current, ap_mon, mix_busy, mix_paused, mix_loops, ap_ended, ap_notified>>

vars == <<pcmVars, ksfVars, sfVars, msVars, kmpVars, clsVars, lkVars, setVars, pcgVars, scanVars, apVars>>

(***************************************************************************)
(* Bytes, slices and struct.unpack                                         *)
(***************************************************************************)
Min(a, b) == IF a <= b THEN a ELSE b

Max(a, b) == IF a >= b THEN a ELSE b

\* d[p] of Python, for 0 <= p < len(d)
At(d, p) == d[p + 1]

\* d[a:b] of Python, for a, b >= 0: the slice is clamped to the buffer
Slice(d, a, b) ==
    LET lo == Min(a, Len(d))
        hi == Min(b, Len(d))
    IN  IF hi <= lo THEN <<>> ELSE SubSeq(d, lo + 1, hi)

\* struct.unpack('>I', d[p:p+4])[0], for p + 4 <= len(d)
U32BE(d, p) ==
    At(d, p) * 16777216 + At(d, p + 1) * 65536 + At(d, p + 2) * 256 + At(d, p + 3)

\* struct.unpack('>H', d[p:p+2])[0]
U16BE(d, p) == At(d, p) * 256 + At(d, p + 1)

\* struct.unpack('<I', d[p:p+4])[0]
U32LE(d, p) ==
    At(d, p) + At(d, p + 1) * 256 + At(d, p + 2) * 65536 + At(d, p + 3) * 16777216

\* struct.unpack('<H', d[p:p+2])[0]
U16LE(d, p) == At(d, p) + At(d, p + 1) * 256

\* struct.unpack('<h', d[p:p+2])[0]: two's complement, 16 bits
S16LE(d, p) ==
    LET u == U16LE(d, p) IN IF u >= 32768 THEN u - 65536 ELSE u

Abs(x) == IF x < 0 THEN -x ELSE x

\* sig occurs in d at Python index p
MatchAt(d, sig, p) ==
    /\ p >= 0
    /\ p + Len(sig) <= Len(d)
    /\ \A k \in 1..Len(sig) : d[p + k] = sig[k]

Occurrences(d, sig) == {p \in 0..(Len(d) - Len(sig)) : MatchAt(d, sig, p)}

\* bytes.find: the first occurrence, or -1
Find(d, sig) ==
    LET occ == Occurrences(d, sig)
    IN  IF occ = {} THEN -1 ELSE CHOOSE p \in occ : \A q \in occ : p <= q

\* bytes.rfind: the last occurrence, or -1
RFind(d, sig) ==
    LET occ == Occurrences(d, sig)
    IN  IF occ = {} THEN -1 ELSE CHOOSE p \in occ : \A q \in occ : p >= q

\* sub in text (Python's `in` on str)
Contains(text, sub) == \E p \in 0..(Len(text) - Len(sub)) : MatchAt(text, sub, p)

\* text.startswith(sub)
StartsWith(text, sub) == MatchAt(text, sub, 0)

\* str.strip() of text whose characters are all in 32..126: only spaces go
RECURSIVE LStrip(_)
LStrip(text) ==
    IF text # <<>> /\ Head(text) = 32 THEN LStrip(Tail(text)) ELSE text

RECURSIVE RStrip(_)
RStrip(text) ==
    IF text # <<>> /\ text[Len(text)] = 32
    THEN RStrip(SubSeq(text, 1, Len(text) - 1))
    ELSE text

Strip(text) == RStrip(LStrip(text))

\* str(i) for i >= 0, as character codes
RECURSIVE Decimal(_)
Decimal(i) ==
    IF i < 10 THEN <<48 + i>> ELSE Decimal(i \div 10) \o <<48 + (i % 10)>>

(***************************************************************************)
(* The markers and text constants of pcm_parser.py                         *)
(***************************************************************************)
KBEG == <<75, 66, 69, 71>>

KEND == <<75, 69, 78, 68>>

KORF == <<75, 79, 82, 70>>

TxtZ112 == <<90, 49, 49, 50>>

TxtKPM == <<75, 80, 77>>

TxtV10 == <<118, 49, 46, 48>>

TxtV32 == <<118, 51, 46, 50>>

TxtSlashes == <<47, 47, 32>>

TxtSTD == <<83, 84, 68>>

\* "_Sample_"
TxtSample == <<95, 83, 97, 109, 112, 108, 101, 95>>

\* ".PCM"
TxtDotPCM == <<46, 80, 67, 77>>

MinPcmLen == 256

SAMPLE_HEADER_SIZE == 76

MinOffset == 64

default_sample_rate == 48000

NameEntrySize == 24

NameTableStart == 36

NameTableLimit == 4096

NameScanLimit == 32768

Printable(b) == 32 <= b /\ b <= 126

NO_LOOP == 0

(***************************************************************************)
(* PCMParser: sample names                                                 *)
(***************************************************************************)
\* names[k] = v on a dict held as a function
Put(m, k, v) == [x \in (DOMAIN m) \cup {k} |-> IF x = k THEN v ELSE m[x]]

EmptyDict == [x \in {} |-> <<>>]

SetMin(S) == CHOOSE x \in S : \A y \in S : x <= y

\* _parse_names_format_v1: where the table of 24-byte entries starts
NamesV1Start(korf_pos) ==
    IF korf_pos < NameTableStart
    THEN NameTableStart
    ELSE LET pos == korf_pos + 13
         IN  IF pos % NameEntrySize # 0
             THEN ((pos \div NameEntrySize) + 1) * NameEntrySize
             ELSE pos

\* the while loop of _parse_names_format_v1, from entry position pos on
RECURSIVE NamesV1From(_, _, _)
NamesV1From(d, pos, names) ==
    IF ~(pos < Min(Len(d), NameTableLimit)) \/ pos + NameEntrySize > Len(d)
    THEN names
    ELSE LET b0 == At(d, pos)
             first_ok == \/ (65 <= b0 /\ b0 <= 122)
                         \/ b0 = 32
                         \/ (48 <= b0 /\ b0 <= 57)
             bad == {j \in 0..15 : At(d, pos + j) = 0 \/ ~Printable(At(d, pos + j))}
             name_end == IF bad = {} THEN 16 ELSE SetMin(bad)
         IN  IF first_ok /\ name_end >= 2
             THEN NamesV1From(d, pos + NameEntrySize,
                              Put(names, At(d, pos + 20),
                                  Strip(Slice(d, pos, pos + name_end))))
             ELSE names

ParseNamesFormatV1(d, korf_pos) ==
    NamesV1From(d, NamesV1Start(korf_pos), EmptyDict)

\* the filter of _parse_names_format_v2 on a stripped candidate name
NameAccepted(name) ==
    /\ name # <<>>
    /\ ~StartsWith(name, TxtZ112)
    /\ ~StartsWith(name, TxtKPM)
    /\ ~Contains(name, TxtV10)
    /\ ~Contains(name, TxtV32)
    /\ ~Contains(name, TxtSlashes)
    /\ ~Contains(name, TxtSTD)

\* the while loop of _parse_names_format_v2 from scan position pos on. Over a
\* stretch of non-printable bytes the loop does pos += 1 each time round; the
\* model goes to the next printable byte in one step.
RECURSIVE NamesV2From(_, _, _, _)
NamesV2From(d, pos, idx, names) ==
    LET max_pos == Min(Len(d), NameScanLimit)
    IN  IF ~(pos < max_pos)
        THEN names
        ELSE IF ~Printable(At(d, pos))
        THEN LET nxt == {q \in (pos + 1)..(max_pos - 1) : Printable(At(d, q))}
             IN  IF nxt = {} THEN names
                 ELSE NamesV2From(d, SetMin(nxt), idx, names)
        ELSE LET stops == {e \in pos..(pos + 20) :
                             \/ e >= max_pos
                             \/ e - pos >= 20
                             \/ ~Printable(At(d, e))}
                 end == SetMin(stops)
                 name_len == end - pos
                 name == Strip(Slice(d, pos, end))
             IN  IF 3 <= name_len /\ name_len <= 16 /\ NameAccepted(name)
                 THEN NamesV2From(d, end + 1, idx + 1, Put(names, idx, name))
                 ELSE NamesV2From(d, end + 1, idx, names)

ParseNamesFormatV2(d) == NamesV2From(d, NameTableStart, 0, EmptyDict)

\* _parse_sample_names: index -> name
ParseSampleNames(d) ==
    LET korf_pos == Find(d, KORF)
    IN  IF korf_pos < 0 THEN EmptyDict
        ELSE LET names_v1 == ParseNamesFormatV1(d, korf_pos)
             IN  IF DOMAIN names_v1 # {} THEN names_v1
                 ELSE ParseNamesFormatV2(d)

\* f'{filename}_Sample_{i}'
DefaultName(fname, i) == fname \o TxtSample \o Decimal(i)

(***************************************************************************)
(* PCMParser: the footer's offset table                                    *)
(***************************************************************************)
\* the while loop of _parse_offset_table
RECURSIVE ReadOffsets(_, _, _, _)
ReadOffsets(d, pos, kend_pos, kbeg_pos) ==
    IF ~(pos < kend_pos - 3)
    THEN <<>>
    ELSE LET val == U32BE(d, pos)
         IN  (IF MinOffset < val /\ val < kbeg_pos THEN <<val>> ELSE <<>>)
             \o ReadOffsets(d, pos + 4, kend_pos, kbeg_pos)

\* the skip test as it would read if a plausible first value were kept
SkipFirstValueUnlessPlausible(d, kbeg_pos) ==
    LET pos == kbeg_pos + 4
    IN  /\ pos + 8 <= Len(d)
        /\ U32BE(d, pos + 4) > MinOffset
        /\ U32BE(d, pos + 4) < kbeg_pos
        /\ ~(U32BE(d, pos) > MinOffset /\ U32BE(d, pos) < kbeg_pos)

\* the test that skips the first value after the footer-begin marker
SkipFirstValue(d, kbeg_pos) ==
    LET pos == kbeg_pos + 4
    IN  /\ pos + 8 <= Len(d)
        /\ U32BE(d, pos + 4) > MinOffset
        /\ U32BE(d, pos + 4) < kbeg_pos

ParseOffsetTable(d, kbeg_pos, kend_pos_in) ==
    LET kend_pos == IF kend_pos_in <= kbeg_pos THEN Len(d) ELSE kend_pos_in
        pos == IF SkipFirstValue(d, kbeg_pos) THEN kbeg_pos + 8 ELSE kbeg_pos + 4
    IN  ReadOffsets(d, pos, kend_pos, kbeg_pos)

(***************************************************************************)
(* PCMParser: the samples                                                  *)
(***************************************************************************)
\* _swap_endian: a buffer of under 2 bytes is returned as it is, an odd last
\* byte is dropped, and each pair of bytes is exchanged
SwapEndian(b) ==
    IF Len(b) < 2 THEN b
    ELSE LET n == Len(b) - (Len(b) % 2)
         IN  [k \in 1..n |-> IF k % 2 = 1 THEN b[k + 1] ELSE b[k - 1]]

\* the SampleInfo dataclass, with the defaults of korg_types.py
\* (name, sample_rate, bit_depth, channels, num_samples, loop_start, loop_end,
\*  loop_mode, root_key, data_offset, raw_data, pcm_file); data_size is
\*  len(raw_data) at every construction site
SampleInfo(nm, sr, bd, ch, ns, ls, le, lm, rk, off, raw, pf) ==
    [name |-> nm, sample_rate |-> sr, bit_depth |-> bd, channels |-> ch,
     num_samples |-> ns, loop_start |-> ls, loop_end |-> le, loop_mode |-> lm,
     root_key |-> rk, data_offset |-> off, data_size |-> Len(raw),
     raw_data |-> raw, pcm_file |-> pf]

\* the sample rate read from the per-sample header at block_start
BlockSampleRate(d, block_start) ==
    LET sample_header == Slice(d, block_start, block_start + SAMPLE_HEADER_SIZE)
    IN  IF Len(sample_header) >= 22
        THEN (IF U16BE(sample_header, 20) = 0
              THEN default_sample_rate
              ELSE U16BE(sample_header, 20))
        ELSE default_sample_rate

\* ExtractBlock with the audio taken from the start of the block, the
\* per-sample header not set apart
ExtractBlockNoHeader(d, fname, names_map, boundaries, i) ==
    LET block_start == boundaries[i + 1]
        block_end == boundaries[i + 2]
        audio_data == SwapEndian(Slice(d, block_start, block_end))
        name == IF i \in DOMAIN names_map THEN names_map[i]
                ELSE DefaultName(fname, i)
    IN  IF block_end - block_start <= SAMPLE_HEADER_SIZE \/ block_start >= Len(d)
        THEN <<>>
        ELSE <<SampleInfo(name, BlockSampleRate(d, block_start), 16, 1,
                          Len(audio_data) \div 2, 0, 0, NO_LOOP, 60,
                          block_start, audio_data, fname)>>

\* one round of the for loop of parse: the samples block i contributes
ExtractBlock(d, fname, names_map, boundaries, i) ==
    LET block_start == boundaries[i + 1]
        block_end == boundaries[i + 2]
        block_size == block_end - block_start
        audio_start == block_start + SAMPLE_HEADER_SIZE
        audio_data == SwapEndian(Slice(d, audio_start, block_end))
        name == IF i \in DOMAIN names_map THEN names_map[i]
                ELSE DefaultName(fname, i)
    IN  IF block_size <= SAMPLE_HEADER_SIZE \/ block_start >= Len(d)
        THEN <<>>
        ELSE <<SampleInfo(name, BlockSampleRate(d, block_start), 16, 1,
                          Len(audio_data) \div 2, 0, 0, NO_LOOP, 60,
                          audio_start, audio_data, fname)>>

RECURSIVE ExtractFrom(_, _, _, _, _)
ExtractFrom(d, fname, names_map, boundaries, i) ==
    IF i >= Len(boundaries) - 1
    THEN <<>>
    ELSE ExtractBlock(d, fname, names_map, boundaries, i)
         \o ExtractFrom(d, fname, names_map, boundaries, i + 1)

\* str.replace(sub, ''): every occurrence of sub, left to right, is removed
RECURSIVE RemoveAll(_, _)
RemoveAll(text, sub) ==
    IF text = <<>> THEN <<>>
    ELSE IF StartsWith(text, sub)
    THEN RemoveAll(SubSeq(text, Len(sub) + 1, Len(text)), sub)
    ELSE <<Head(text)>> \o RemoveAll(Tail(text), sub)

LegacyProbes == <<256, 512, 1024, 2048, 4096>>

\* 50 little-endian 16-bit values from offset on, one above the threshold
LooksLoud(d, offset) == \E k \in 0..49 : Abs(S16LE(d, offset + 2 * k)) > 1000

\* _parse_legacy_format
ParseLegacyFormat(d, fname) ==
    IF Find(d, KORF) < 0 THEN <<>>
    ELSE LET hits == {k \in 1..Len(LegacyProbes) :
                        /\ LegacyProbes[k] < Len(d) - 100
                        /\ LooksLoud(d, LegacyProbes[k])}
             audio_start == IF hits = {} THEN 4096 ELSE LegacyProbes[SetMin(hits)]
             audio_data == Slice(d, audio_start, Len(d))
         IN  IF Len(audio_data) > 1000
             THEN <<SampleInfo(RemoveAll(fname, TxtDotPCM), default_sample_rate,
                               16, 1, Len(audio_data) \div 2, 0, 0, NO_LOOP, 60,
                               audio_start, audio_data, <<>>)>>
             ELSE <<>>

\* PCMParser.parse: the path the call takes
PCMPath(d) ==
    IF Len(d) < MinPcmLen THEN "short"
    ELSE IF RFind(d, KBEG) < 0 THEN "legacy"
    ELSE IF ParseOffsetTable(d, RFind(d, KBEG), RFind(d, KEND)) = <<>> THEN "empty"
    ELSE "footer"

\* PCMParser.parse: the list returned
PCMParse(d, fname) ==
    IF Len(d) < MinPcmLen THEN <<>>
    ELSE LET kbeg_pos == RFind(d, KBEG)
             kend_pos == RFind(d, KEND)
         IN  IF kbeg_pos < 0 THEN ParseLegacyFormat(d, fname)
             ELSE LET names_map == ParseSampleNames(d)
                      sample_offsets == ParseOffsetTable(d, kbeg_pos, kend_pos)
                  IN  IF sample_offsets = <<>> THEN <<>>
                      ELSE ExtractFrom(d, fname, names_map,
                                       sample_offsets \o <<kbeg_pos>>, 0)

(***************************************************************************)
(* The containers PCMParser.parse is given                                 *)
(***************************************************************************)
MaxWords == 4

\* the 32-bit values a footer may hold: 2 (a count, no offset), 0x100, 0x250
WordVals == {2, 256, 592}

\* where the footer-begin marker may be: 0x250 + 76 (the last block holds a
\* header and no audio), one byte further (one byte of audio), and 0x2A0
KbegPositions == {668, 669, 672}

Unknown == <<85, 110, 107, 110, 111, 119, 110>>

XPCM == <<88, 46, 80, 67, 77>>

\* a container's header (no signature; the signature alone; two rows of the
\* 24-byte name table; a row of spaces; free text), the file name it is parsed
\* under, the value in the rate fields of the headers at 0x100 and 0x250, and
\* whether a footer-end marker follows the table
Profiles ==
    {[hdr |-> "korf",  fname |-> XPCM,    rate |-> 48000, kend |-> TRUE],
     [hdr |-> "none",  fname |-> Unknown, rate |-> 0,     kend |-> FALSE],
     [hdr |-> "v1",    fname |-> XPCM,    rate |-> 48000, kend |-> TRUE],
     [hdr |-> "blank", fname |-> Unknown, rate |-> 0,     kend |-> TRUE],
     [hdr |-> "text",  fname |-> XPCM,    rate |-> 48000, kend |-> FALSE]}

WordSeqs == UNION {[1..n -> WordVals] : n \in 1..MaxWords}

\* byte k (0 the most significant) of the 32-bit value w
WordByte(w, k) ==
    CASE k = 0 -> (w \div 16777216) % 256
      [] k = 1 -> (w \div 65536) % 256
      [] k = 2 -> (w \div 256) % 256
      [] k = 3 -> w % 256

\* the bytes before the footer: the signature, the name area, the rate field
\* of the headers at 0x100 and 0x250, and audio bytes from 0x60 on
BodyByte(hdr, rate, p) ==
    IF p < 4 THEN (IF hdr = "none" THEN 0 ELSE KORF[p + 1])
    ELSE IF hdr = "v1" /\ p \in {36, 60} THEN 65 + (p \div 30)
    ELSE IF hdr = "v1" /\ p \in {37, 61} THEN 98
    ELSE IF hdr = "v1" /\ p = 80 THEN 1
    ELSE IF hdr = "blank" /\ p \in {36, 37} THEN 32
    ELSE IF hdr = "text" /\ p \in 48..50 THEN <<80, 110, 111>>[p - 47]
    ELSE IF p \in {276, 612} THEN rate \div 256
    ELSE IF p \in {277, 613} THEN rate % 256
    ELSE IF p >= 96 THEN 128 + (p % 5)
    ELSE 0

\* a container with a footer: the marker at kbeg, then the words, then the
\* footer-end marker when the profile has one
FooterBuffer(words, kbeg, fl) ==
    LET hdr == fl.hdr
        n == kbeg + 4 + 4 * Len(words) + (IF fl.kend THEN 4 ELSE 0)
    IN  [i \in 1..n |->
            LET p == i - 1
                q == p - kbeg - 4
            IN  IF p < kbeg THEN BodyByte(hdr, fl.rate, p)
                ELSE IF q < 0 THEN KBEG[p - kbeg + 1]
                ELSE IF q < 4 * Len(words) THEN WordByte(words[(q \div 4) + 1], q % 4)
                ELSE KEND[q - 4 * Len(words) + 1]]

\* a container with no footer: n bytes, the signature or not, and from 0x100
\* on either little-endian 2048 throughout or silence
PlainBuffer(n, korf, loud) ==
    [i \in 1..n |->
        LET p == i - 1
        IN  IF p < 4 THEN (IF korf THEN KORF[p + 1] ELSE 0)
            ELSE IF loud /\ p >= 256 /\ p % 2 = 1 THEN 8
            ELSE 0]

PlainLens == {255, 300, 1300}

(***************************************************************************)
(* PCMParser.parse as a state machine                                      *)
(***************************************************************************)
PcmInit ==
    /\ \/ \E words \in WordSeqs, kbeg \in KbegPositions, fl \in Profiles :
            /\ data = FooterBuffer(words, kbeg, fl)
            /\ filename = fl.fname
       \/ \E n \in PlainLens, korf \in BOOLEAN, loud \in BOOLEAN,
             fname \in {XPCM, Unknown} :
            /\ data = PlainBuffer(n, korf, loud)
            /\ filename = fname
    /\ samples = <<>>
    /\ pcm_pc = "start"

Parse ==
    /\ pcm_pc = "start"
    /\ samples' = PCMParse(data, filename)
    /\ pcm_pc' = PCMPath(data)
    /\ UNCHANGED <<data, filename>>

PcmIdle ==
    /\ data = <<>>
    /\ filename = <<>>
    /\ samples = <<>>
    /\ pcm_pc = "idle"

(***************************************************************************)
(* KSFParser                                                               *)
(***************************************************************************)
KSF1 == <<75, 83, 70, 49>>

kSF1 == <<107, 83, 70, 49>>

RIFF == <<82, 73, 70, 70>>

WAVE == <<87, 65, 86, 69>>

TagFmt == <<102, 109, 116, 32>>

TagData == <<100, 97, 116, 97>>

MinKsfLen == 44

AudioProbeSize == 1000

\* _validate_sample_params
ValidateSampleParams(sample_rate, bit_depth, channels) ==
    /\ ~(sample_rate < 8000 \/ sample_rate > 192000)
    /\ bit_depth \in {8, 16, 24, 32}
    /\ ~(channels < 1 \/ channels > 8)

\* _find_audio_data_offset
FindAudioDataOffset(d, min_offset) ==
    IF 64 < Len(d) THEN 64
    ELSE IF 128 < Len(d) THEN 128
    ELSE IF 256 < Len(d) THEN 256
    ELSE min_offset

\* _calc_num_samples
CalcNumSamples(data_size, bit_depth, channels) ==
    LET bytes_per_sample == (bit_depth \div 8) * channels
    IN  IF bytes_per_sample > 0 THEN data_size \div bytes_per_sample ELSE 0

\* _looks_like_audio: under 2000 bytes the length decides; from 2000 bytes on
\* the deviation and zero-crossing rate of the first 1000 values decide, which
\* the model leaves open (like)
LooksLikeAudio(d, like) ==
    IF Len(d) < AudioProbeSize * 2 THEN Len(d) > 100 ELSE like

GenericHeaderSizes == <<0, 32, 44, 64, 128, 256>>

\* _parse_generic_format
ParseGenericFormat(d, name, like) ==
    LET hits == {k \in 1..Len(GenericHeaderSizes) :
                    /\ GenericHeaderSizes[k] < Len(d)
                    /\ LooksLikeAudio(Slice(d, GenericHeaderSizes[k], Len(d)), like)}
    IN  IF hits = {} THEN <<>>
        ELSE LET header_size == GenericHeaderSizes[SetMin(hits)]
                 audio_data == Slice(d, header_size, Len(d))
                 num_samples == (Len(audio_data) \div (16 \div 8)) \div 2
             IN  <<SampleInfo(name, 44100, 16, 2, num_samples, 0, num_samples,
                              NO_LOOP, 60, header_size, audio_data, <<>>)>>

\* _parse_ksf1_format; with at least 44 bytes no read of the header can fail
ParseKsf1Format(d, name, like) ==
    LET sample_rate == U32LE(d, 8)
        bit_depth == U16LE(d, 12)
        channels == U16LE(d, 14)
        num_samples == U32LE(d, 16)
        loop_start == U32LE(d, 20)
        loop_end == U32LE(d, 24)
        loop_mode == IF Len(d) > 28 THEN At(d, 28) ELSE 0
        root_key == IF Len(d) > 29 THEN At(d, 29) ELSE 60
        data_offset == FindAudioDataOffset(d, 32)
        data_size == Len(d) - data_offset
    IN  IF ~ValidateSampleParams(sample_rate, bit_depth, channels)
        THEN ParseGenericFormat(d, name, like)
        ELSE <<SampleInfo(name, sample_rate, bit_depth, channels,
                          IF num_samples > 0 THEN num_samples
                          ELSE CalcNumSamples(data_size, bit_depth, channels),
                          loop_start,
                          IF loop_end > 0 THEN loop_end ELSE num_samples,
                          Min(loop_mode, 3), root_key, data_offset,
                          Slice(d, data_offset, Len(d)), <<>>)>>

\* the while loop of _parse_riff_format from chunk position pos on: the 'data'
\* chunk found, with the format read before it; "none" when the buffer ends
\* first, "error" when a read of the 'fmt ' chunk raises
RECURSIVE RiffScan(_, _, _, _, _)
RiffScan(d, pos, sample_rate, bit_depth, channels) ==
    IF ~(pos < Len(d) - 8)
    THEN [kind |-> "none"]
    ELSE LET chunk_id == Slice(d, pos, pos + 4)
             chunk_size == U32LE(d, pos + 4)
             \* a slice ends at the end of the buffer, and a position at or
             \* beyond it ends the loop: sizes are cut at len(data)
             reach == Min(chunk_size, Len(d))
             fmt_data == Slice(d, pos + 8, pos + 8 + reach)
             next == pos + 8 + reach + (chunk_size % 2)
         IN  IF chunk_id = TagFmt
             THEN IF Len(fmt_data) < 16
                  THEN [kind |-> "error"]
                  ELSE RiffScan(d, next, U32LE(fmt_data, 4),
                                U16LE(fmt_data, 14), U16LE(fmt_data, 2))
             ELSE IF chunk_id = TagData
             THEN [kind |-> "data", data_offset |-> pos + 8,
                   audio_data |-> Slice(d, pos + 8, pos + 8 + reach),
                   sample_rate |-> sample_rate, bit_depth |-> bit_depth,
                   channels |-> channels]
             ELSE RiffScan(d, next, sample_rate, bit_depth, channels)

\* _parse_riff_format; a division by zero is caught and None returned
ParseRiffFormat(d, name) ==
    IF Slice(d, 8, 12) # WAVE THEN <<>>
    ELSE LET r == RiffScan(d, 12, 44100, 16, 1)
         IN  IF r.kind # "data" THEN <<>>
             ELSE IF r.bit_depth \div 8 = 0 \/ r.channels = 0 THEN <<>>
             ELSE LET num_samples ==
                          (Len(r.audio_data) \div (r.bit_depth \div 8)) \div r.channels
                  IN  <<SampleInfo(name, r.sample_rate, r.bit_depth, r.channels,
                                   num_samples, 0, num_samples, NO_LOOP, 60,
                                   r.data_offset, r.audio_data, <<>>)>>

\* KSFParser.parse
KSFParse(d, name, like) ==
    IF Len(d) < MinKsfLen THEN <<>>
    ELSE IF Slice(d, 0, 4) = RIFF THEN ParseRiffFormat(d, name)
    ELSE IF Slice(d, 0, 4) \in {KSF1, kSF1} THEN ParseKsf1Format(d, name, like)
    ELSE ParseGenericFormat(d, name, like)

(***************************************************************************)
(* The files KSFParser.parse is given                                      *)
(***************************************************************************)
\* byte k (0 the least significant) of the little-endian value w
LEByte(w, k) ==
    CASE k = 0 -> w % 256
      [] k = 1 -> (w \div 256) % 256
      [] k = 2 -> (w \div 65536) % 256
      [] k = 3 -> (w \div 16777216) % 256

\* a file with a KSF1 header: n bytes, the fields at their offsets, audio
\* bytes from 32 on
Ksf1Buffer(n, h) ==
    [i \in 1..n |->
        LET p == i - 1
        IN  IF p < 4 THEN h.sig[p + 1]
            ELSE IF p \in 8..11 THEN LEByte(h.sample_rate, p - 8)
            ELSE IF p \in 12..13 THEN LEByte(h.bit_depth, p - 12)
            ELSE IF p \in 14..15 THEN LEByte(h.channels, p - 14)
            ELSE IF p \in 16..19 THEN LEByte(h.num_samples, p - 16)
            ELSE IF p \in 24..27 THEN LEByte(h.loop_end, p - 24)
            ELSE IF p = 28 THEN h.loop_mode
            ELSE IF p = 29 THEN 60
            ELSE IF p >= 32 THEN 1 + (p % 5)
            ELSE 0]

Ksf1Headers ==
    [sig : {KSF1, kSF1, KORF}, sample_rate : {44100, 100}, bit_depth : {16, 8},
     channels : {1, 2}, num_samples : {0, 10, 1000}, loop_end : {0, 5, 2000},
     loop_mode : {0, 1, 200}]

KsfLens == {43, 44, 150, 2000}

\* a RIFF file of n bytes: 'RIFF', a size, the form type, a 'fmt ' chunk of
\* fmt_size bytes and a chunk tagged tag declaring data_size bytes
RiffBuffer(n, h) ==
    LET second == 20 + h.fmt_size + (h.fmt_size % 2)
    IN  [i \in 1..n |->
            LET p == i - 1
            IN  IF p < 4 THEN RIFF[p + 1]
                ELSE IF p \in 8..11 THEN h.form[p - 7]
                ELSE IF p \in 12..15 THEN TagFmt[p - 11]
                ELSE IF p \in 16..19 THEN LEByte(h.fmt_size, p - 16)
                ELSE IF p \in 20..21 THEN LEByte(1, p - 20)
                ELSE IF p \in 22..23 THEN LEByte(h.channels, p - 22)
                ELSE IF p \in 24..27 THEN LEByte(44100, p - 24)
                ELSE IF p \in 34..35 /\ p < second THEN LEByte(h.bit_depth, p - 34)
                ELSE IF p \in second..(second + 3) THEN h.tag[p - second + 1]
                ELSE IF p \in (second + 4)..(second + 7)
                     THEN LEByte(h.data_size, p - second - 4)
                ELSE IF p >= second + 8 THEN 1 + (p % 5)
                ELSE 0]

RiffHeaders ==
    [form : {WAVE, KORF}, fmt_size : {16, 17, 8}, channels : {1, 2, 0},
     bit_depth : {16, 8, 12, 4}, tag : {TagData, KORF}, data_size : {8, 9, 400}]

RiffLens == {60, 150}

Sample01 == <<83, 48, 49>>

KsfInit ==
    /\ \/ \E n \in KsfLens, h \in Ksf1Headers : ksf_data = Ksf1Buffer(n, h)
       \/ \E n \in RiffLens, h \in RiffHeaders : ksf_data = RiffBuffer(n, h)
    /\ stat_like \in BOOLEAN
    /\ ksf_result = <<>>
    /\ ksf_pc = "start"

KsfIdle ==
    /\ ksf_data = <<>>
    /\ stat_like = FALSE
    /\ ksf_result = <<>>
    /\ ksf_pc = "idle"

\* parse_ksf(data, "S01")
KsfParse ==
    /\ ksf_pc = "start"
    /\ ksf_result' = KSFParse(ksf_data, Sample01, stat_like)
    /\ ksf_pc' = "done"
    /\ UNCHANGED <<ksf_data, stat_like>>

(***************************************************************************)
(* SF2Writer                                                               *)
(***************************************************************************)
GenKeyRange == 43

GenVelRange == 44

GenInstrument == 41

GenSampleID == 53

GenOverridingRootKey == 58

PadSamples == 46

Zeros(n) == [i \in 1..n |-> 0]

RECURSIVE Concat(_)
\* b''.join(parts)
Concat(parts) == IF parts = <<>> THEN <<>> ELSE Head(parts) \o Concat(Tail(parts))

\* struct.pack('<HBB', gen, lo, hi): the 16-bit amount that the two bytes form
RangeAmount(lo, hi) == lo + 256 * hi

\* SF2Writer.__init__
NewWriter == [samples |-> <<>>, instruments |-> <<>>, presets |-> <<>>]

\* SF2Writer.add_sample
AddSampleTo(w, audio_data, root_key, loop_start, loop_end) ==
    LET num_samples == Len(audio_data) \div 2
        padding == Zeros(PadSamples * 2)
        sample == [start |-> 0,
                   end |-> num_samples,
                   loop_start |-> IF loop_start > 0 THEN loop_start ELSE 0,
                   loop_end |-> IF loop_end > 0 THEN loop_end ELSE num_samples,
                   original_pitch |-> root_key,
                   data |-> audio_data \o padding]
    IN  [w EXCEPT !.samples = Append(@, sample)]

\* the zone dictionary add_instrument stores for a zone tuple
ZoneDict(zone) ==
    [key_range |-> <<zone[1], zone[2]>>,
     vel_range |-> <<zone[3], zone[4]>>,
     sample_id |-> zone[5],
     generators |-> IF Len(zone) > 5 THEN zone[6] ELSE <<>>]

RECURSIVE ZoneDicts(_)
\* the loop of add_instrument: tuples of fewer than 5 fields are passed over
ZoneDicts(zones) ==
    IF zones = <<>> THEN <<>>
    ELSE IF Len(Head(zones)) >= 5
         THEN <<ZoneDict(Head(zones))>> \o ZoneDicts(Tail(zones))
         ELSE ZoneDicts(Tail(zones))

\* SF2Writer.add_instrument
AddInstrumentTo(w, zones) ==
    [w EXCEPT !.instruments = Append(@, [zones |-> ZoneDicts(zones)])]

\* SF2Writer.add_preset
AddPresetTo(w, preset_num, bank, instrument_ids) ==
    [w EXCEPT !.presets = Append(@, [preset_num |-> preset_num, bank |-> bank,
                                     instruments |-> instrument_ids])]

RECURSIVE CreateSimpleFrom(_, _, _)
\* the loop of create_simple_soundfont from entry i (0-based) on
CreateSimpleFrom(w, samples_data, i) ==
    IF i >= Len(samples_data) THEN w
    ELSE LET info == samples_data[i + 1]
             sample_id == Len(w.samples)
             w1 == AddSampleTo(w, info.audio_data, info.root_key,
                               info.loop_start, info.loop_end)
             inst_id == Len(w1.instruments)
             w2 == AddInstrumentTo(w1, <<<<0, 127, 0, 127, sample_id,
                                          <<<<GenOverridingRootKey, info.root_key>>>>>>>>)
             w3 == AddPresetTo(w2, i % 128, i \div 128, <<inst_id>>)
         IN  CreateSimpleFrom(w3, samples_data, i + 1)

\* SF2Writer.create_simple_soundfont
CreateSimpleSoundfont(w, samples_data) == CreateSimpleFrom(w, samples_data, 0)

\* _make_chunk: the chunk's data, padded to an even length
MakeChunk(d) == IF Len(d) % 2 = 1 THEN d \o <<0>> ELSE d

\* _build_sdta: the data of the smpl chunk
BuildSdta(w) == MakeChunk(Concat([k \in 1..Len(w.samples) |-> w.samples[k].data]))

RECURSIVE PositionFrom(_, _, _)
\* the loop at the head of _build_pdta: it rewrites the stored samples
PositionFrom(ss, k, pos) ==
    IF k > Len(ss) THEN ss
    ELSE LET s == ss[k]
             frames == Len(s.data) \div 2
             end == pos + frames - PadSamples
             placed == [s EXCEPT !.start = pos,
                                 !.end = end,
                                 !.loop_start = IF s.loop_end > 0 THEN pos + s.loop_start
                                                ELSE pos,
                                 !.loop_end = IF s.loop_end > 0 THEN pos + s.loop_end
                                              ELSE end]
         IN  PositionFrom([ss EXCEPT ![k] = placed], k + 1, pos + frames)

PositionSamples(ss) == PositionFrom(ss, 1, 0)

RECURSIVE PhdrFrom(_, _, _)
\* the loop of _build_phdr from preset k on, then the terminal record
PhdrFrom(presets, k, pbag_idx) ==
    IF k > Len(presets)
    THEN <<[name |-> "EOP", preset_num |-> 0, bank |-> 0, bag |-> pbag_idx]>>
    ELSE <<[name |-> "preset", preset_num |-> presets[k].preset_num,
            bank |-> presets[k].bank, bag |-> pbag_idx]>>
         \o PhdrFrom(presets, k + 1, pbag_idx + Len(presets[k].instruments) + 1)

\* _build_phdr
BuildPhdr(w) == PhdrFrom(w.presets, 1, 0)

\* the instrument ids of all presets, in the order _build_pbag and _build_pgen
\* walk them
PresetZones(w) == Concat([k \in 1..Len(w.presets) |-> w.presets[k].instruments])

\* _build_pbag: one record per preset zone, 2 generators each, then the terminal
BuildPbag(w) ==
    [i \in 1..(Len(PresetZones(w)) + 1) |-> [gen |-> 2 * (i - 1), mod |-> 0]]

\* _build_pgen
BuildPgen(w) ==
    Concat([i \in 1..Len(PresetZones(w)) |->
                <<<<GenKeyRange, RangeAmount(0, 127)>>,
                  <<GenInstrument, PresetZones(w)[i]>>>>])
    \o <<<<0, 0>>>>

RECURSIVE InstFrom(_, _, _)
\* the loop of _build_inst from instrument k on, then the terminal record
InstFrom(instruments, k, ibag_idx) ==
    IF k > Len(instruments)
    THEN <<[name |-> "EOI", bag |-> ibag_idx]>>
    ELSE <<[name |-> "inst", bag |-> ibag_idx]>>
         \o InstFrom(instruments, k + 1, ibag_idx + Len(instruments[k].zones) + 1)

\* _build_inst
BuildInst(w) == InstFrom(w.instruments, 1, 0)

\* the zones of all instruments, in the order _build_ibag and _build_igen walk
\* them
InstZones(w) == Concat([k \in 1..Len(w.instruments) |-> w.instruments[k].zones])

\* a zone bag that counts keyRange and velRange but not sampleID
ZoneGenCountNoSampleID(zone) == 2 + Len(zone.generators)

\* _build_ibag, the step of gen_idx: keyRange + velRange + sampleID + custom
ZoneGenCount(zone) == 3 + Len(zone.generators)

RECURSIVE IbagFrom(_, _, _)
IbagFrom(zones, k, gen_idx) ==
    IF k > Len(zones) THEN <<[gen |-> gen_idx, mod |-> 0]>>
    ELSE <<[gen |-> gen_idx, mod |-> 0]>>
         \o IbagFrom(zones, k + 1, gen_idx + ZoneGenCount(zones[k]))

\* _build_ibag
BuildIbag(w) == IbagFrom(InstZones(w), 1, 0)

\* the generators _build_igen writes for one zone; the custom values of the
\* model are plain integers
ZoneGenerators(zone) ==
    <<<<GenKeyRange, RangeAmount(zone.key_range[1], zone.key_range[2])>>,
      <<GenVelRange, RangeAmount(zone.vel_range[1], zone.vel_range[2])>>>>
    \o zone.generators
    \o <<<<GenSampleID, zone.sample_id>>>>

\* _build_igen
BuildIgen(w) ==
    Concat([i \in 1..Len(InstZones(w)) |-> ZoneGenerators(InstZones(w)[i])])
    \o <<<<0, 0>>>>

\* _build_shdr
BuildShdr(w) ==
    [k \in 1..Len(w.samples) |->
        [name |-> "sample", start |-> w.samples[k].start, end |-> w.samples[k].end,
         loop_start |-> w.samples[k].loop_start, loop_end |-> w.samples[k].loop_end,
         original_pitch |-> w.samples[k].original_pitch]]
    \o <<[name |-> "EOS", start |-> 0, end |-> 0, loop_start |-> 0, loop_end |-> 0,
          original_pitch |-> 0]>>

\* struct.pack accepts every field _build_pdta writes: 'H' for bag, generator
\* and instrument indices and sample ids, 'B' for range bounds, 'h' for custom
\* amounts, 'b' for the original pitch
Packable(w) ==
    /\ \A k \in 1..Len(w.presets) :
          /\ w.presets[k].preset_num \in 0..65535
          /\ w.presets[k].bank \in 0..65535
    /\ \A i \in 1..Len(PresetZones(w)) : PresetZones(w)[i] \in 0..65535
    /\ \A i \in 1..Len(InstZones(w)) :
          LET zone == InstZones(w)[i]
          IN  /\ zone.key_range[1] \in 0..255 /\ zone.key_range[2] \in 0..255
              /\ zone.vel_range[1] \in 0..255 /\ zone.vel_range[2] \in 0..255
              /\ zone.sample_id \in 0..65535
              /\ \A g \in 1..Len(zone.generators) :
                    /\ zone.generators[g][1] \in 0..65535
                    /\ zone.generators[g][2] \in -32768..32767
    /\ \A k \in 1..Len(w.samples) : w.samples[k].original_pitch \in -128..127

\* _build, after _build_pdta has placed the samples: the arrays of the bank
Build(w) ==
    [smpl |-> BuildSdta(w), phdr |-> BuildPhdr(w), pbag |-> BuildPbag(w),
     pgen |-> BuildPgen(w), inst |-> BuildInst(w), ibag |-> BuildIbag(w),
     igen |-> BuildIgen(w), shdr |-> BuildShdr(w)]

\* SF2Writer.save on writer w with file contents file: the writer afterwards,
\* the return value and the file; a struct.error leaves the file alone
Save(w, file) ==
    LET placed == [w EXCEPT !.samples = PositionSamples(@)]
    IN  IF Packable(placed)
        THEN [writer |-> placed, ok |-> "True", file |-> <<Build(placed)>>]
        ELSE [writer |-> placed, ok |-> "False", file |-> file]

RECURSIVE SamplesData(_)
\* the loop of export_samples_to_sf2: samples without payload are left out
SamplesData(ss) ==
    IF ss = <<>> THEN <<>>
    ELSE IF Head(ss).raw_data # <<>>
         THEN <<[audio_data |-> Head(ss).raw_data, root_key |-> Head(ss).root_key,
                 loop_start |-> Head(ss).loop_start, loop_end |-> Head(ss).loop_end]>>
              \o SamplesData(Tail(ss))
         ELSE SamplesData(Tail(ss))

\* export_samples_to_sf2
ExportSamplesToSf2(ss, file) ==
    IF SamplesData(ss) = <<>>
    THEN [writer |-> NewWriter, ok |-> "False", file |-> file]
    ELSE Save(CreateSimpleSoundfont(NewWriter, SamplesData(ss)), file)

(***************************************************************************)
(* The calls made on an SF2Writer                                          *)
(***************************************************************************)
MaxCalls == 4

\* n bytes of audio, every byte the mark of its sample
Audio(n, mark) == [i \in 1..n |-> mark]

\* add_sample(name, audio_data, 44100, root_key, 0, loop_end)
SampleCalls ==
    {[len |-> 0, root_key |-> 60, loop_end |-> 0],
     [len |-> 2, root_key |-> 60, loop_end |-> 0],
     [len |-> 3, root_key |-> 60, loop_end |-> 0],
     [len |-> 4, root_key |-> 200, loop_end |-> 1]}

\* add_instrument(name, zones): no zones, one zone, a zone with a custom
\* generator next to a tuple that is too short, two zones
ZoneLists ==
    {<<>>,
     <<<<0, 127, 0, 127, 0>>>>,
     <<<<0, 60, 0, 127, 1, <<<<GenOverridingRootKey, 60>>>>>>, <<61, 127>>>>,
     <<<<0, 60, 0, 100, 0>>, <<61, 127, 0, 127, 1, <<<<GenOverridingRootKey, 72>>>>>>>>}

\* add_preset(name, preset_num, 0, instrument_ids)
InstrumentIdLists == {<<>>, <<0>>, <<1, 0>>}

\* the SampleInfo fields export_samples_to_sf2 reads
ExportSamples ==
    {[raw_data |-> <<>>, root_key |-> 60, loop_start |-> 0, loop_end |-> 0],
     [raw_data |-> <<7, 7>>, root_key |-> 60, loop_start |-> 0, loop_end |-> 1],
     [raw_data |-> <<9, 9, 9>>, root_key |-> 60, loop_start |-> 0, loop_end |-> 0],
     [raw_data |-> <<5, 5, 5, 5>>, root_key |-> 200, loop_start |-> 0, loop_end |-> 0]}

ExportLists ==
    {<<>>} \cup {<<a>> : a \in ExportSamples}
           \cup {<<a, b>> : a \in ExportSamples, b \in ExportSamples}

SfInit ==
    /\ writer = NewWriter
    /\ sf_file = <<>>
    /\ sf_ok = "none"
    /\ sf_calls = 0
    /\ sf_pc = "open"

SfIdle ==
    /\ writer = NewWriter
    /\ sf_file = <<>>
    /\ sf_ok = "none"
    /\ sf_calls = 0
    /\ sf_pc = "idle"

AddSample ==
    /\ sf_pc \in {"open", "saved"}
    /\ sf_calls < MaxCalls
    /\ \E c \in SampleCalls :
          writer' = AddSampleTo(writer, Audio(c.len, Len(writer.samples) + 1),
                                c.root_key, 0, c.loop_end)
    /\ sf_calls' = sf_calls + 1
    /\ sf_pc' = "open"
    /\ UNCHANGED <<sf_file, sf_ok>>

AddInstrument ==
    /\ sf_pc \in {"open", "saved"}
    /\ sf_calls < MaxCalls
    /\ \E zones \in ZoneLists : writer' = AddInstrumentTo(writer, zones)
    /\ sf_calls' = sf_calls + 1
    /\ sf_pc' = "open"
    /\ UNCHANGED <<sf_file, sf_ok>>

AddPreset ==
    /\ sf_pc \in {"open", "saved"}
    /\ sf_calls < MaxCalls
    /\ \E ids \in InstrumentIdLists :
          writer' = AddPresetTo(writer, Len(writer.presets), 0, ids)
    /\ sf_calls' = sf_calls + 1
    /\ sf_pc' = "open"
    /\ UNCHANGED <<sf_file, sf_ok>>

\* writer.save(path)
SaveCall ==
    /\ sf_pc \in {"open", "saved"}
    /\ sf_calls < MaxCalls
    /\ LET r == Save(writer, sf_file)
       IN  /\ writer' = r.writer
           /\ sf_ok' = r.ok
           /\ sf_file' = r.file
    /\ sf_calls' = sf_calls + 1
    /\ sf_pc' = "saved"

\* export_samples_to_sf2(samples, path): the call makes its own writer
ExportCall ==
    /\ sf_pc = "open"
    /\ sf_calls = 0
    /\ \E ss \in ExportLists :
          LET r == ExportSamplesToSf2(ss, sf_file)
          IN  /\ writer' = r.writer
              /\ sf_ok' = r.ok
              /\ sf_file' = r.file
    /\ sf_calls' = 1
    /\ sf_pc' = "exported"


(***************************************************************************)
(* Multisample lookup and SetParser._link_samples                          *)
(***************************************************************************)
MaxZones == 2

MaxPkg == 3

\* KeyZone
KeyZone(lk, hk, lv, hv, si, rk, ft, lvl, pn) == [low_key |-> lk, high_key |-> hk, low_velocity |-> lv, high_velocity |-> hv, sample_index |-> si, root_key |-> rk, fine_tune |-> ft, level |-> lvl, pan |-> pn]

\* the condition of get_sample_for_note on a zone
ZoneContains(zone, note, velocity) ==
    /\ zone.low_key <= note /\ note <= zone.high_key
    /\ zone.low_velocity <= velocity /\ velocity <= zone.high_velocity

\* the zone (1-based) whose sample get_sample_for_note returns, 0 for None
ZoneReturned(zones, ms_s, note, velocity) ==
    LET hits == {k \in 1..Len(zones) :
                    /\ ZoneContains(zones[k], note, velocity)
                    /\ zones[k].sample_index < Len(ms_s)}
    IN  IF hits = {} THEN 0 ELSE SetMin(hits)

\* Multisample.get_sample_for_note: <<>> for None
GetSampleForNote(zones, ms_s, note, velocity) ==
    LET k == ZoneReturned(zones, ms_s, note, velocity)
    IN  IF k = 0 THEN <<>> ELSE <<ms_s[zones[k].sample_index + 1]>>

RECURSIVE LinkFrom(_, _, _, _)
\* the inner loop of _link_samples from zone k on: the multisample's samples
LinkFrom(zones, k, ms_s, pkg) ==
    IF k > Len(zones) THEN ms_s
    ELSE LET si == zones[k].sample_index
         IN  IF si < Len(pkg)
             THEN IF si < Len(ms_s)
                  THEN LinkFrom(zones, k + 1, ms_s, pkg)
                  ELSE LinkFrom(zones, k + 1, Append(ms_s, pkg[si + 1]), pkg)
             ELSE LinkFrom(zones, k + 1, ms_s, pkg)

\* SetParser._link_samples, for one multisample of the package
LinkSamples(zones, ms_s, pkg) == LinkFrom(zones, 1, ms_s, pkg)

KeyRanges == {<<0, 127>>, <<60, 72>>}

VelRanges == {<<0, 127>>, <<0, 63>>}

Zones ==
    {KeyZone(kr[1], kr[2], vr[1], vr[2], si, 60, 0, 127, 64) :
        kr \in KeyRanges, vr \in VelRanges, si \in 0..MaxPkg}

ZoneTables == UNION {[1..n -> Zones] : n \in 0..MaxZones}

Notes == {0, 64, 127}

Velocities == {1, 100}

\* a package as the sub-decoders leave it: its samples, told apart by their
\* place in the list, and a multisample that has zones and no samples yet
MsInit ==
    /\ \E n \in 0..MaxPkg : pkg_samples = [i \in 1..n |-> i - 1]
    /\ ms_zones \in ZoneTables
    /\ ms_samples = <<>>
    /\ ms_found = <<>>
    /\ ms_hit = 0
    /\ ms_note = <<>>
    /\ ms_pc = "parsed"

MsIdle ==
    /\ pkg_samples = <<>>
    /\ ms_zones = <<>>
    /\ ms_samples = <<>>
    /\ ms_found = <<>>
    /\ ms_hit = 0
    /\ ms_note = <<>>
    /\ ms_pc = "idle"

\* the linking pass at the end of SetParser.parse
Link ==
    /\ ms_pc = "parsed"
    /\ ms_samples' = LinkSamples(ms_zones, ms_samples, pkg_samples)
    /\ ms_pc' = "linked"
    /\ UNCHANGED <<pkg_samples, ms_zones, ms_found, ms_hit, ms_note>>

\* multisample.get_sample_for_note(note, velocity) on the linked package
Lookup ==
    /\ ms_pc \in {"linked", "looked"}
    /\ \E note \in Notes, velocity \in Velocities :
          /\ ms_found' = GetSampleForNote(ms_zones, ms_samples, note, velocity)
          /\ ms_hit' = ZoneReturned(ms_zones, ms_samples, note, velocity)
          /\ ms_note' = <<note, velocity>>
    /\ ms_pc' = "looked"
    /\ UNCHANGED <<pkg_samples, ms_zones, ms_samples>>

(***************************************************************************)
(* KMPParser                                                               *)
(***************************************************************************)
KMP1 == <<75, 77, 80, 49>>

MSP1 == <<77, 83, 80, 49>>

kmp1 == <<107, 109, 112, 49>>

MinKmpLen == 32

MaxZoneCount == 128

ZoneOffsets == <<32, 40, 48>>

ZoneSizes == <<16, 20, 24, 32>>

\* struct.unpack('<b', d[p:p+1])[0]
S8(d, p) == IF At(d, p) >= 128 THEN At(d, p) - 256 ELSE At(d, p)

\* the full-keyboard zone of _parse_generic_format and of the fallback
DefaultZone == KeyZone(0, 127, 0, 127, 0, 60, 0, 127, 64)

\* a zone record without its order check
ZoneRecordValidNoOrder(low_key, high_key) == ~(low_key > 127 \/ high_key > 127)

\* _parse_zones, the validation of one record
ZoneRecordValid(low_key, high_key) ==
    ~(low_key > 127 \/ high_key > 127 \/ low_key > high_key)

\* _parse_zones, the KeyZone built from the record at pos (zone sizes are 16
\* and more, so every field is read from the record)
ZoneAt(d, pos) ==
    LET low_key == At(d, pos)
        high_key == At(d, pos + 1)
        root_key == At(d, pos + 2)
    IN  KeyZone(low_key, high_key, At(d, pos + 4), At(d, pos + 5),
                U16LE(d, pos + 6),
                IF root_key > 127 THEN (low_key + high_key) \div 2 ELSE root_key,
                S8(d, pos + 3), At(d, pos + 8), At(d, pos + 9))

\* _parse_zones for one zone size: the zones, or <<>> when the table does not
\* fit or a record fails the validation
ZonesOfSize(d, offset, num_zones, zone_size) ==
    IF offset + num_zones * zone_size > Len(d) THEN <<>>
    ELSE IF \A i \in 0..(num_zones - 1) :
                ZoneRecordValid(At(d, offset + i * zone_size),
                                At(d, offset + i * zone_size + 1))
         THEN [k \in 1..num_zones |-> ZoneAt(d, offset + (k - 1) * zone_size)]
         ELSE <<>>

\* _parse_zones as it would read if the last zone size that yields zones won
ParseZonesLastSize(d, offset, num_zones) ==
    LET good == {s \in 1..Len(ZoneSizes) :
                    ZonesOfSize(d, offset, num_zones, ZoneSizes[s]) # <<>>}
    IN  IF good = {} THEN <<>>
        ELSE ZonesOfSize(d, offset, num_zones, ZoneSizes[CHOOSE x \in good : \A y \in good : x >= y])

\* _parse_zones: the zones of the first zone size that yields any
ParseZones(d, offset, num_zones) ==
    LET good == {s \in 1..Len(ZoneSizes) :
                    ZonesOfSize(d, offset, num_zones, ZoneSizes[s]) # <<>>}
    IN  IF good = {} THEN <<>>
        ELSE ZonesOfSize(d, offset, num_zones, ZoneSizes[SetMin(good)])

\* the loop of _parse_kmp1_format over the zone offsets: the zones of one
ZonesAtOffset(d, zone_offset) ==
    IF zone_offset + 2 <= Len(d)
       /\ 1 <= U16LE(d, zone_offset) /\ U16LE(d, zone_offset) <= MaxZoneCount
    THEN ParseZones(d, zone_offset + 2, U16LE(d, zone_offset))
    ELSE <<>>

\* data.find(b'\x00', 8, 40)
FindZero(d, lo, hi) ==
    LET occ == {p \in lo..(Min(hi, Len(d)) - 1) : At(d, p) = 0}
    IN  IF occ = {} THEN -1 ELSE SetMin(occ)

\* the name _parse_kmp1_format reads from the header; the names of the model
\* are printable
HeaderName(d, name) ==
    LET name_end == FindZero(d, 8, 40)
    IN  IF name_end > 8 /\ Strip(Slice(d, 8, name_end)) # <<>>
        THEN Strip(Slice(d, 8, name_end))
        ELSE name

\* _parse_kmp1_format; with 32 bytes and more no read fails
ParseKmp1Format(d, name) ==
    LET good == {k \in 1..Len(ZoneOffsets) : ZonesAtOffset(d, ZoneOffsets[k]) # <<>>}
        zones == IF good = {} THEN <<DefaultZone>>
                 ELSE ZonesAtOffset(d, ZoneOffsets[SetMin(good)])
    IN  <<[name |-> HeaderName(d, name), zones |-> zones, samples |-> <<>>]>>

\* KMPParser._parse_generic_format
ParseKmpGeneric(d, name) ==
    <<[name |-> name, zones |-> <<DefaultZone>>, samples |-> <<>>]>>

\* KMPParser.parse: <<>> for None, <<m>> for a Multisample m
KMPParse(d, name) ==
    IF Len(d) < MinKmpLen THEN <<>>
    ELSE IF Slice(d, 0, 4) \in {KMP1, MSP1, kmp1} THEN ParseKmp1Format(d, name)
    ELSE ParseKmpGeneric(d, name)

(***************************************************************************)
(* The files KMPParser.parse is given                                      *)
(***************************************************************************)
\* the first ten bytes of a zone record
ZoneRecord(r) ==
    <<r.keys[1], r.keys[2], r.root_key, 0, r.vels[1], r.vels[2], 1, 0, 100, 64>>

\* a file of n bytes: a signature, a name at 8, a zone count at base and,
\* from base + 2 on, the same zone record every period bytes, the rest of
\* each period being fill
KmpBuffer(n, h, r) ==
    [i \in 1..n |->
        LET p == i - 1
            q == (p - (h.base + 2)) % h.period
        IN  IF p < 4 THEN h.sig[p + 1]
            ELSE IF p \in 8..(7 + Len(h.title)) THEN h.title[p - 7]
            ELSE IF p = h.base THEN h.count % 256
            ELSE IF p = h.base + 1 THEN h.count \div 256
            ELSE IF p >= h.base + 2
                 THEN IF q < 10 THEN ZoneRecord(r)[q + 1] ELSE h.fill
            ELSE 0]

KmpLens == {31, 32, 66, 130}

KmpLayouts ==
    [sig : {KMP1, kmp1, KORF}, title : {<<>>, <<80, 110, 111>>},
     base : {32, 40, 48}, count : {0, 1, 2, 3, 129}, period : {16, 20, 32},
     fill : {0, 200}]

KmpRecords ==
    [keys : {<<0, 127>>, <<60, 50>>, <<10, 200>>}, root_key : {60, 200},
     vels : {<<0, 127>>, <<100, 50>>, <<0, 200>>}]

KmpInit ==
    /\ \E n \in KmpLens, h \in KmpLayouts, r \in KmpRecords :
          kmp_data = KmpBuffer(n, h, r)
    /\ kmp_result = <<>>
    /\ kmp_pc = "start"

KmpIdle ==
    /\ kmp_data = <<>>
    /\ kmp_result = <<>>
    /\ kmp_pc = "idle"

\* parse_kmp(data, "S01")
KmpParse ==
    /\ kmp_pc = "start"
    /\ kmp_result' = KMPParse(kmp_data, Sample01)
    /\ kmp_pc' = "done"
    /\ UNCHANGED kmp_data

(***************************************************************************)
(* Regular expressions, as the re module matches them                      *)
(*                                                                         *)
(* A pattern is a tree; matching is by backtracking, and the matches of a  *)
(* pattern at a position are listed in the order re tries them, so that    *)
(* the first one is the match re reports.  Text is ASCII.                  *)
(***************************************************************************)
\* \d
DigitChars == 48..57

\* \w
WordChars == (48..57) \cup (65..90) \cup (97..122) \cup {95}

\* \s
SpaceChars == (9..13) \cup (28..32)

\* a character class, or one character
Chr(cs) == [t |-> "in", cs |-> cs]

\* literal text
Lit(text) == [t |-> "lit", text |-> text]

\* the items one after the other
Cat(items) == [t |-> "cat", items |-> items]

\* a | b | ...
Alt(items) == [t |-> "alt", items |-> items]

\* item?
Opt(item) == [t |-> "rep", lo |-> 0, many |-> FALSE, item |-> item]

\* item*
Star(item) == [t |-> "rep", lo |-> 0, many |-> TRUE, item |-> item]

\* item+
Plus(item) == [t |-> "rep", lo |-> 1, many |-> TRUE, item |-> item]

\* the capturing group number n
Grp(n, item) == [t |-> "grp", n |-> n, item |-> item]

\* \b
AtBoundary == [t |-> "at", where |-> "boundary"]

\* ^
AtBeginning == [t |-> "at", where |-> "beginning"]

\* $
AtEnd == [t |-> "at", where |-> "end"]

\* str.lower() of one ASCII character
LowerChar(c) == IF c \in 65..90 THEN c + 32 ELSE c

\* str.lower()
Lower(text) == [k \in 1..Len(text) |-> LowerChar(text[k])]

\* c is in the class cs; with re.IGNORECASE, in either case
CharIn(c, cs, ignorecase) ==
    \/ c \in cs
    \/ ignorecase /\ \E x \in cs : LowerChar(x) = LowerChar(c)

\* text stands in s at pos
LitAt(s, pos, text, ignorecase) ==
    /\ pos + Len(text) <= Len(s)
    /\ \A k \in 1..Len(text) : CharIn(s[pos + k], {text[k]}, ignorecase)

\* the zero-width assertions at pos
AtHolds(where, s, pos) ==
    CASE where = "boundary" ->
            (pos > 0 /\ s[pos] \in WordChars)
                # (pos < Len(s) /\ s[pos + 1] \in WordChars)
      [] where = "beginning" -> pos = 0
      [] where = "end" ->
            pos = Len(s) \/ (pos = Len(s) - 1 /\ s[Len(s)] = 10)

\* no group has taken part in the match yet
NoGroups == <<<<>>, <<>>>>

RECURSIVE Match(_, _, _, _)
RECURSIVE MatchEach(_, _, _, _)
RECURSIVE MatchCat(_, _, _, _, _)
RECURSIVE MatchAlt(_, _, _, _, _)
RECURSIVE MatchRep(_, _, _, _, _)
RECURSIVE MatchRepEach(_, _, _, _, _)

\* the matches of node n in s from the state m = [pos, caps], in the order
\* re tries them
Match(n, s, m, ignorecase) ==
    CASE n.t = "in" ->
            IF m.pos < Len(s) /\ CharIn(s[m.pos + 1], n.cs, ignorecase)
            THEN <<[m EXCEPT !.pos = m.pos + 1]>>
            ELSE <<>>
      [] n.t = "lit" ->
            IF LitAt(s, m.pos, n.text, ignorecase)
            THEN <<[m EXCEPT !.pos = m.pos + Len(n.text)]>>
            ELSE <<>>
      [] n.t = "at" -> IF AtHolds(n.where, s, m.pos) THEN <<m>> ELSE <<>>
      [] n.t = "cat" -> MatchCat(n.items, 1, s, <<m>>, ignorecase)
      [] n.t = "alt" -> MatchAlt(n.items, 1, s, m, ignorecase)
      [] n.t = "rep" -> MatchRep(n, 0, s, m, ignorecase)
      [] n.t = "grp" ->
            LET inner == Match(n.item, s, m, ignorecase)
            IN  [k \in 1..Len(inner) |->
                    [inner[k] EXCEPT !.caps[n.n] = <<m.pos, inner[k].pos>>]]

\* the matches of n from each of the states ms, in order
MatchEach(n, s, ms, ignorecase) ==
    IF ms = <<>> THEN <<>>
    ELSE Match(n, s, Head(ms), ignorecase)
         \o MatchEach(n, s, Tail(ms), ignorecase)

\* items k.. of a concatenation, from the states ms
MatchCat(items, k, s, ms, ignorecase) ==
    IF k > Len(items) THEN ms
    ELSE MatchCat(items, k + 1, s, MatchEach(items[k], s, ms, ignorecase),
                  ignorecase)

\* alternatives k.. of a branch: the earlier alternative is tried first
MatchAlt(items, k, s, m, ignorecase) ==
    IF k > Len(items) THEN <<>>
    ELSE Match(items[k], s, m, ignorecase)
         \o MatchAlt(items, k + 1, s, m, ignorecase)

\* a greedy repeat that has matched count times: one more round is tried
\* before stopping here
MatchRep(n, count, s, m, ignorecase) ==
    LET more == IF n.many \/ count < 1
                THEN MatchRepEach(n, count + 1, s,
                                  Match(n.item, s, m, ignorecase), ignorecase)
                ELSE <<>>
        stop == IF count >= n.lo THEN <<m>> ELSE <<>>
    IN  more \o stop

MatchRepEach(n, count, s, ms, ignorecase) ==
    IF ms = <<>> THEN <<>>
    ELSE MatchRep(n, count, s, Head(ms), ignorecase)
         \o MatchRepEach(n, count, s, Tail(ms), ignorecase)

\* the matches of the pattern that start at pos
MatchesFrom(pattern, s, pos, ignorecase) ==
    Match(pattern, s, [pos |-> pos, caps |-> NoGroups], ignorecase)

\* the first match of the leftmost position from pos on that has one
RECURSIVE SearchFrom(_, _, _, _)
SearchFrom(pattern, s, pos, ignorecase) ==
    IF pos > Len(s) THEN <<>>
    ELSE LET found == MatchesFrom(pattern, s, pos, ignorecase)
         IN  IF found # <<>> THEN <<found[1]>>
             ELSE SearchFrom(pattern, s, pos + 1, ignorecase)

\* re.search: <<>> for None, else <<m>> with m the match
Search(pattern, s, ignorecase) == SearchFrom(pattern, s, 0, ignorecase)

\* match.groups()[k - 1]; a group that took no part (None) reads as ''
GroupText(s, m, k) ==
    IF m.caps[k] = <<>> THEN <<>> ELSE SubSeq(s, m.caps[k][1] + 1, m.caps[k][2])

\* int(text) for a text of digits
RECURSIVE ParseInt(_)
ParseInt(text) ==
    IF text = <<>> THEN 0
    ELSE 10 * ParseInt(SubSeq(text, 1, Len(text) - 1)) + (text[Len(text)] - 48)

(***************************************************************************)
(* sample_classifier.py: the pattern tables                                *)
(***************************************************************************)
DRUM_PATTERNS ==
    \* \b(KICK|kick|Kick)\d*\b
    <<Cat(<<AtBoundary, Grp(1, Alt(<<Lit(<<75, 73, 67, 75>>), Lit(<<107, 105,
    99, 107>>), Lit(<<75, 105, 99, 107>>)>>)), Star(Chr(DigitChars)),
    AtBoundary>>),
    \* \b(SNARE|snare|Snare)\d*\b
    Cat(<<AtBoundary, Grp(1, Alt(<<Lit(<<83, 78, 65, 82, 69>>), Lit(<<115,
    110, 97, 114, 101>>), Lit(<<83, 110, 97, 114, 101>>)>>)),
    Star(Chr(DigitChars)), AtBoundary>>),
    \* \bHI[\s\-]?HAT\b
    Cat(<<AtBoundary, Lit(<<72, 73>>), Opt(Chr(SpaceChars \cup {45})),
    Lit(<<72, 65, 84>>), AtBoundary>>),
    \* \b(HH|hh)(CL|OP|PD)?\b
    Cat(<<AtBoundary, Grp(1, Alt(<<Lit(<<72, 72>>), Lit(<<104, 104>>)>>)),
    Opt(Grp(2, Alt(<<Lit(<<67, 76>>), Lit(<<79, 80>>), Lit(<<80, 68>>)>>))),
    AtBoundary>>),
    \* \b(TOM|tom|Tom)[\s_\-]?\d*\b
    Cat(<<AtBoundary, Grp(1, Alt(<<Lit(<<84, 79, 77>>), Lit(<<116, 111,
    109>>), Lit(<<84, 111, 109>>)>>)), Opt(Chr(SpaceChars \cup {95, 45})),
    Star(Chr(DigitChars)), AtBoundary>>),
    \* \b(CRASH|crash|Crash)\b
    Cat(<<AtBoundary, Grp(1, Alt(<<Lit(<<67, 82, 65, 83, 72>>), Lit(<<99,
    114, 97, 115, 104>>), Lit(<<67, 114, 97, 115, 104>>)>>)), AtBoundary>>),
    \* \b(RIDE|ride|Ride)\b
    Cat(<<AtBoundary, Grp(1, Alt(<<Lit(<<82, 73, 68, 69>>), Lit(<<114, 105,
    100, 101>>), Lit(<<82, 105, 100, 101>>)>>)), AtBoundary>>),
    \* \b(CYMBAL|cymbal|CYM|cym)\b
    Cat(<<AtBoundary, Grp(1, Alt(<<Lit(<<67, 89, 77, 66, 65, 76>>), Lit(<<99,
    121, 109, 98, 97, 108>>), Lit(<<67, 89, 77>>), Lit(<<99, 121, 109>>)>>)),
    AtBoundary>>),
    \* \b(CLAP|clap|Clap)S?\b
    Cat(<<AtBoundary, Grp(1, Alt(<<Lit(<<67, 76, 65, 80>>), Lit(<<99, 108,
    97, 112>>), Lit(<<67, 108, 97, 112>>)>>)), Opt(Lit(<<83>>)),
    AtBoundary>>),
    \* \b(RIM|rim|Rim)\b
    Cat(<<AtBoundary, Grp(1, Alt(<<Lit(<<82, 73, 77>>), Lit(<<114, 105,
    109>>), Lit(<<82, 105, 109>>)>>)), AtBoundary>>),
    \* \b(FILL|fill|Fill)[\s_\-]?\d*\b
    Cat(<<AtBoundary, Grp(1, Alt(<<Lit(<<70, 73, 76, 76>>), Lit(<<102, 105,
    108, 108>>), Lit(<<70, 105, 108, 108>>)>>)), Opt(Chr(SpaceChars \cup {95,
    45})), Star(Chr(DigitChars)), AtBoundary>>),
    \* \b(PERC|perc|Percussion)\b
    Cat(<<AtBoundary, Grp(1, Alt(<<Lit(<<80, 69, 82, 67>>), Lit(<<112, 101,
    114, 99>>), Lit(<<80, 101, 114, 99, 117, 115, 115, 105, 111, 110>>)>>)),
    AtBoundary>>),
    \* \bBD[\s_]?\w*\b
    Cat(<<AtBoundary, Lit(<<66, 68>>), Opt(Chr(SpaceChars \cup {95})),
    Star(Chr(WordChars)), AtBoundary>>),
    \* \bBass[\s_\-]?[Dd]rum\b
    Cat(<<AtBoundary, Lit(<<66, 97, 115, 115>>), Opt(Chr(SpaceChars \cup {95,
    45})), Chr({68, 100}), Lit(<<114, 117, 109>>), AtBoundary>>),
    \* \bBassdrum\b
    Cat(<<AtBoundary, Lit(<<66, 97, 115, 115, 100, 114, 117, 109>>),
    AtBoundary>>),
    \* \b(CONGA|conga|Conga)\b
    Cat(<<AtBoundary, Grp(1, Alt(<<Lit(<<67, 79, 78, 71, 65>>), Lit(<<99,
    111, 110, 103, 97>>), Lit(<<67, 111, 110, 103, 97>>)>>)), AtBoundary>>),
    \* \b(BONGO|bongo|Bongo)\b
    Cat(<<AtBoundary, Grp(1, Alt(<<Lit(<<66, 79, 78, 71, 79>>), Lit(<<98,
    111, 110, 103, 111>>), Lit(<<66, 111, 110, 103, 111>>)>>)),
    AtBoundary>>),
    \* \b(TIMBAL|timbal|Timbal)\b
    Cat(<<AtBoundary, Grp(1, Alt(<<Lit(<<84, 73, 77, 66, 65, 76>>),
    Lit(<<116, 105, 109, 98, 97, 108>>), Lit(<<84, 105, 109, 98, 97,
    108>>)>>)), AtBoundary>>),
    \* \b(TAMB|tamb|Tambourine)\b
    Cat(<<AtBoundary, Grp(1, Alt(<<Lit(<<84, 65, 77, 66>>), Lit(<<116, 97,
    109, 98>>), Lit(<<84, 97, 109, 98, 111, 117, 114, 105, 110, 101>>)>>)),
    AtBoundary>>),
    \* \b(TABLA|tabla)\b
    Cat(<<AtBoundary, Grp(1, Alt(<<Lit(<<84, 65, 66, 76, 65>>), Lit(<<116,
    97, 98, 108, 97>>)>>)), AtBoundary>>),
    \* \b(DARBUKA|darbuka|Darbuka)\b
    Cat(<<AtBoundary, Grp(1, Alt(<<Lit(<<68, 65, 82, 66, 85, 75, 65>>),
    Lit(<<100, 97, 114, 98, 117, 107, 97>>), Lit(<<68, 97, 114, 98, 117, 107,
    97>>)>>)), AtBoundary>>),
    \* \b[HD]?(DAULA|daula|Daula)\b
    Cat(<<AtBoundary, Opt(Chr({72, 68})), Grp(1, Alt(<<Lit(<<68, 65, 85, 76,
    65>>), Lit(<<100, 97, 117, 108, 97>>), Lit(<<68, 97, 117, 108, 97>>)>>)),
    AtBoundary>>),
    \* \b(DOIRA|doira)\b
    Cat(<<AtBoundary, Grp(1, Alt(<<Lit(<<68, 79, 73, 82, 65>>), Lit(<<100,
    111, 105, 114, 97>>)>>)), AtBoundary>>),
    \* \b(DJEMBE|djembe)\b
    Cat(<<AtBoundary, Grp(1, Alt(<<Lit(<<68, 74, 69, 77, 66, 69>>),
    Lit(<<100, 106, 101, 109, 98, 101>>)>>)), AtBoundary>>),
    \* \b(CLOPOTEI|clopotei)\b
    Cat(<<AtBoundary, Grp(1, Alt(<<Lit(<<67, 76, 79, 80, 79, 84, 69, 73>>),
    Lit(<<99, 108, 111, 112, 111, 116, 101, 105>>)>>)), AtBoundary>>),
    \* \b(BELL|bell|Bell)s?\b
    Cat(<<AtBoundary, Grp(1, Alt(<<Lit(<<66, 69, 76, 76>>), Lit(<<98, 101,
    108, 108>>), Lit(<<66, 101, 108, 108>>)>>)), Opt(Lit(<<115>>)),
    AtBoundary>>),
    \* \b(TRIANGLE|triangle)\b
    Cat(<<AtBoundary, Grp(1, Alt(<<Lit(<<84, 82, 73, 65, 78, 71, 76, 69>>),
    Lit(<<116, 114, 105, 97, 110, 103, 108, 101>>)>>)), AtBoundary>>),
    \* \b(COWBELL|cowbell)\b
    Cat(<<AtBoundary, Grp(1, Alt(<<Lit(<<67, 79, 87, 66, 69, 76, 76>>),
    Lit(<<99, 111, 119, 98, 101, 108, 108>>)>>)), AtBoundary>>),
    \* \b(CHIMES|chimes)\b
    Cat(<<AtBoundary, Grp(1, Alt(<<Lit(<<67, 72, 73, 77, 69, 83>>), Lit(<<99,
    104, 105, 109, 101, 115>>)>>)), AtBoundary>>),
    \* \b(GONG|gong)\b
    Cat(<<AtBoundary, Grp(1, Alt(<<Lit(<<71, 79, 78, 71>>), Lit(<<103, 111,
    110, 103>>)>>)), AtBoundary>>),
    \* \bSD\d*\b
    Cat(<<AtBoundary, Lit(<<83, 68>>), Star(Chr(DigitChars)), AtBoundary>>),
    \* \b(SHAKER|shaker)\b
    Cat(<<AtBoundary, Grp(1, Alt(<<Lit(<<83, 72, 65, 75, 69, 82>>),
    Lit(<<115, 104, 97, 107, 101, 114>>)>>)), AtBoundary>>),
    \* \b(CASTANET|castanet)\b
    Cat(<<AtBoundary, Grp(1, Alt(<<Lit(<<67, 65, 83, 84, 65, 78, 69, 84>>),
    Lit(<<99, 97, 115, 116, 97, 110, 101, 116>>)>>)), AtBoundary>>),
    \* \b(GUIRO|guiro)\b
    Cat(<<AtBoundary, Grp(1, Alt(<<Lit(<<71, 85, 73, 82, 79>>), Lit(<<103,
    117, 105, 114, 111>>)>>)), AtBoundary>>),
    \* \b(MARACAS|maracas)\b
    Cat(<<AtBoundary, Grp(1, Alt(<<Lit(<<77, 65, 82, 65, 67, 65, 83>>),
    Lit(<<109, 97, 114, 97, 99, 97, 115>>)>>)), AtBoundary>>),
    \* \b(CABASA|cabasa)\b
    Cat(<<AtBoundary, Grp(1, Alt(<<Lit(<<67, 65, 66, 65, 83, 65>>), Lit(<<99,
    97, 98, 97, 115, 97>>)>>)), AtBoundary>>),
    \* \b(WOODBLOCK|woodblock)\b
    Cat(<<AtBoundary, Grp(1, Alt(<<Lit(<<87, 79, 79, 68, 66, 76, 79, 67,
    75>>), Lit(<<119, 111, 111, 100, 98, 108, 111, 99, 107>>)>>)),
    AtBoundary>>),
    \* \b(CLAVES|claves)\b
    Cat(<<AtBoundary, Grp(1, Alt(<<Lit(<<67, 76, 65, 86, 69, 83>>), Lit(<<99,
    108, 97, 118, 101, 115>>)>>)), AtBoundary>>),
    \* \b(AGOGO|agogo)\b
    Cat(<<AtBoundary, Grp(1, Alt(<<Lit(<<65, 71, 79, 71, 79>>), Lit(<<97,
    103, 111, 103, 111>>)>>)), AtBoundary>>),
    \* \b(CUICA|cuica)\b
    Cat(<<AtBoundary, Grp(1, Alt(<<Lit(<<67, 85, 73, 67, 65>>), Lit(<<99,
    117, 105, 99, 97>>)>>)), AtBoundary>>),
    \* \b(VIBRASLAP|vibraslap)\b
    Cat(<<AtBoundary, Grp(1, Alt(<<Lit(<<86, 73, 66, 82, 65, 83, 76, 65,
    80>>), Lit(<<118, 105, 98, 114, 97, 115, 108, 97, 112>>)>>)),
    AtBoundary>>),
    \* \b(WHISTLE|whistle)\b
    Cat(<<AtBoundary, Grp(1, Alt(<<Lit(<<87, 72, 73, 83, 84, 76, 69>>),
    Lit(<<119, 104, 105, 115, 116, 108, 101>>)>>)), AtBoundary>>),
    \* \b(HIT|hit|Hit)\d*\b
    Cat(<<AtBoundary, Grp(1, Alt(<<Lit(<<72, 73, 84>>), Lit(<<104, 105,
    116>>), Lit(<<72, 105, 116>>)>>)), Star(Chr(DigitChars)), AtBoundary>>),
    \* \b(FX|fx|Fx)\d*\b
    Cat(<<AtBoundary, Grp(1, Alt(<<Lit(<<70, 88>>), Lit(<<102, 120>>),
    Lit(<<70, 120>>)>>)), Star(Chr(DigitChars)), AtBoundary>>),
    \* \b(SFX|sfx)\b
    Cat(<<AtBoundary, Grp(1, Alt(<<Lit(<<83, 70, 88>>), Lit(<<115, 102,
    120>>)>>)), AtBoundary>>),
    \* \bARAB\b
    Cat(<<AtBoundary, Lit(<<65, 82, 65, 66>>), AtBoundary>>),
    \* \bGABY\d*\b
    Cat(<<AtBoundary, Lit(<<71, 65, 66, 89>>), Star(Chr(DigitChars)),
    AtBoundary>>),
    \* \bSASHKO\b
    Cat(<<AtBoundary, Lit(<<83, 65, 83, 72, 75, 79>>), AtBoundary>>),
    \* \bPREMIER\b
    Cat(<<AtBoundary, Lit(<<80, 82, 69, 77, 73, 69, 82>>), AtBoundary>>)>>

MELODIC_PATTERNS ==
    \* (\b(Do|DO|do)[\s_\-]?(\d+)?(?:\s|$|[_\-]), 'C')
    <<[re |-> Cat(<<AtBoundary, Grp(1, Alt(<<Lit(<<68, 111>>), Lit(<<68,
    79>>), Lit(<<100, 111>>)>>)), Opt(Chr(SpaceChars \cup {95, 45})),
    Opt(Grp(2, Plus(Chr(DigitChars)))), Alt(<<Chr(SpaceChars), AtEnd,
    Chr({95, 45})>>)>>), note_override |-> <<67>>],
    \* (\b(Re|RE|re)[\s_\-]?(\d+)?(?:\s|$|[_\-]), 'D')
    [re |-> Cat(<<AtBoundary, Grp(1, Alt(<<Lit(<<82, 101>>), Lit(<<82, 69>>),
    Lit(<<114, 101>>)>>)), Opt(Chr(SpaceChars \cup {95, 45})), Opt(Grp(2,
    Plus(Chr(DigitChars)))), Alt(<<Chr(SpaceChars), AtEnd, Chr({95,
    45})>>)>>), note_override |-> <<68>>],
    \* (\b(Mi|MI|mi)[\s_\-]?(\d+)?(?:\s|$|[_\-]), 'E')
    [re |-> Cat(<<AtBoundary, Grp(1, Alt(<<Lit(<<77, 105>>), Lit(<<77, 73>>),
    Lit(<<109, 105>>)>>)), Opt(Chr(SpaceChars \cup {95, 45})), Opt(Grp(2,
    Plus(Chr(DigitChars)))), Alt(<<Chr(SpaceChars), AtEnd, Chr({95,
    45})>>)>>), note_override |-> <<69>>],
    \* (\b(Fa|FA|fa)[\s_\-]?(\d+)?(?:\s|$|[_\-]), 'F')
    [re |-> Cat(<<AtBoundary, Grp(1, Alt(<<Lit(<<70, 97>>), Lit(<<70, 65>>),
    Lit(<<102, 97>>)>>)), Opt(Chr(SpaceChars \cup {95, 45})), Opt(Grp(2,
    Plus(Chr(DigitChars)))), Alt(<<Chr(SpaceChars), AtEnd, Chr({95,
    45})>>)>>), note_override |-> <<70>>],
    \* (\b(Sol|SOL|sol)[\s_\-]?(\d+)?(?:\s|$|[_\-]), 'G')
    [re |-> Cat(<<AtBoundary, Grp(1, Alt(<<Lit(<<83, 111, 108>>), Lit(<<83,
    79, 76>>), Lit(<<115, 111, 108>>)>>)), Opt(Chr(SpaceChars \cup {95,
    45})), Opt(Grp(2, Plus(Chr(DigitChars)))), Alt(<<Chr(SpaceChars), AtEnd,
    Chr({95, 45})>>)>>), note_override |-> <<71>>],
    \* (\b(La|LA|la)[\s_\-]?(\d+)?(?:\s|$|[_\-]), 'A')
    [re |-> Cat(<<AtBoundary, Grp(1, Alt(<<Lit(<<76, 97>>), Lit(<<76, 65>>),
    Lit(<<108, 97>>)>>)), Opt(Chr(SpaceChars \cup {95, 45})), Opt(Grp(2,
    Plus(Chr(DigitChars)))), Alt(<<Chr(SpaceChars), AtEnd, Chr({95,
    45})>>)>>), note_override |-> <<65>>],
    \* (\b(Si|SI|si)[\s_\-]?(\d+)?(?:\s|$|[_\-]), 'B')
    [re |-> Cat(<<AtBoundary, Grp(1, Alt(<<Lit(<<83, 105>>), Lit(<<83, 73>>),
    Lit(<<115, 105>>)>>)), Opt(Chr(SpaceChars \cup {95, 45})), Opt(Grp(2,
    Plus(Chr(DigitChars)))), Alt(<<Chr(SpaceChars), AtEnd, Chr({95,
    45})>>)>>), note_override |-> <<66>>],
    \* (\b([A-G])#?(\d)\b, None)
    [re |-> Cat(<<AtBoundary, Grp(1, Chr((65..71))), Opt(Lit(<<35>>)), Grp(2,
    Chr(DigitChars)), AtBoundary>>), note_override |-> <<>>],
    \* (\bFL([A-G])(\d)\b, None)
    [re |-> Cat(<<AtBoundary, Lit(<<70, 76>>), Grp(1, Chr((65..71))), Grp(2,
    Chr(DigitChars)), AtBoundary>>), note_override |-> <<>>],
    \* (\b(Do|Re|Mi|Fa|Sol|La|Si)[Dd]iez[\s_\-]?(\d+)?, 'sharp')
    [re |-> Cat(<<AtBoundary, Grp(1, Alt(<<Lit(<<68, 111>>), Lit(<<82,
    101>>), Lit(<<77, 105>>), Lit(<<70, 97>>), Lit(<<83, 111, 108>>),
    Lit(<<76, 97>>), Lit(<<83, 105>>)>>)), Chr({68, 100}), Lit(<<105, 101,
    122>>), Opt(Chr(SpaceChars \cup {95, 45})), Opt(Grp(2,
    Plus(Chr(DigitChars))))>>), note_override |-> <<115, 104, 97, 114,
    112>>],
    \* (\b(Mib|mib|MIB)[\s_\-]?(\d+)?, 'Eb')
    [re |-> Cat(<<AtBoundary, Grp(1, Alt(<<Lit(<<77, 105, 98>>), Lit(<<109,
    105, 98>>), Lit(<<77, 73, 66>>)>>)), Opt(Chr(SpaceChars \cup {95, 45})),
    Opt(Grp(2, Plus(Chr(DigitChars))))>>), note_override |-> <<69, 98>>],
    \* (\b(Lab|lab|LAB)[\s_\-]?(\d+)?, 'Ab')
    [re |-> Cat(<<AtBoundary, Grp(1, Alt(<<Lit(<<76, 97, 98>>), Lit(<<108,
    97, 98>>), Lit(<<76, 65, 66>>)>>)), Opt(Chr(SpaceChars \cup {95, 45})),
    Opt(Grp(2, Plus(Chr(DigitChars))))>>), note_override |-> <<65, 98>>],
    \* (\b(Sib|sib|SIB)[\s_\-]?(\d+)?, 'Bb')
    [re |-> Cat(<<AtBoundary, Grp(1, Alt(<<Lit(<<83, 105, 98>>), Lit(<<115,
    105, 98>>), Lit(<<83, 73, 66>>)>>)), Opt(Chr(SpaceChars \cup {95, 45})),
    Opt(Grp(2, Plus(Chr(DigitChars))))>>), note_override |-> <<66, 98>>],
    \* ([_\-]([A-G]#?)(\d)\b, None)
    [re |-> Cat(<<Chr({95, 45}), Grp(1, Cat(<<Chr((65..71)),
    Opt(Lit(<<35>>))>>)), Grp(2, Chr(DigitChars)), AtBoundary>>),
    note_override |-> <<>>],
    \* (^([A-G])(\d+)\b, None)
    [re |-> Cat(<<AtBeginning, Grp(1, Chr((65..71))), Grp(2,
    Plus(Chr(DigitChars))), AtBoundary>>), note_override |-> <<>>]>>

MELODIC_INSTRUMENT_PATTERNS ==
    \* \b(Piano|PIANO|piano)\b
    <<Cat(<<AtBoundary, Grp(1, Alt(<<Lit(<<80, 105, 97, 110, 111>>),
    Lit(<<80, 73, 65, 78, 79>>), Lit(<<112, 105, 97, 110, 111>>)>>)),
    AtBoundary>>),
    \* \b(Strings?|STRING|string)\b
    Cat(<<AtBoundary, Grp(1, Alt(<<Cat(<<Lit(<<83, 116, 114, 105, 110,
    103>>), Opt(Lit(<<115>>))>>), Lit(<<83, 84, 82, 73, 78, 71>>), Lit(<<115,
    116, 114, 105, 110, 103>>)>>)), AtBoundary>>),
    \* \b(Violin|VIOLIN|violin|Vioara|vioara)\b
    Cat(<<AtBoundary, Grp(1, Alt(<<Lit(<<86, 105, 111, 108, 105, 110>>),
    Lit(<<86, 73, 79, 76, 73, 78>>), Lit(<<118, 105, 111, 108, 105, 110>>),
    Lit(<<86, 105, 111, 97, 114, 97>>), Lit(<<118, 105, 111, 97, 114,
    97>>)>>)), AtBoundary>>),
    \* \b(Viola|VIOLA|viola)\b
    Cat(<<AtBoundary, Grp(1, Alt(<<Lit(<<86, 105, 111, 108, 97>>), Lit(<<86,
    73, 79, 76, 65>>), Lit(<<118, 105, 111, 108, 97>>)>>)), AtBoundary>>),
    \* \b(Cello|CELLO|cello)\b
    Cat(<<AtBoundary, Grp(1, Alt(<<Lit(<<67, 101, 108, 108, 111>>), Lit(<<67,
    69, 76, 76, 79>>), Lit(<<99, 101, 108, 108, 111>>)>>)), AtBoundary>>),
    \* \b(Bass|BASS|bass)\b
    Cat(<<AtBoundary, Grp(1, Alt(<<Lit(<<66, 97, 115, 115>>), Lit(<<66, 65,
    83, 83>>), Lit(<<98, 97, 115, 115>>)>>)), AtBoundary>>),
    \* \b(Guitar|GUITAR|guitar)\b
    Cat(<<AtBoundary, Grp(1, Alt(<<Lit(<<71, 117, 105, 116, 97, 114>>),
    Lit(<<71, 85, 73, 84, 65, 82>>), Lit(<<103, 117, 105, 116, 97,
    114>>)>>)), AtBoundary>>),
    \* \b(Organ|ORGAN|organ)\b
    Cat(<<AtBoundary, Grp(1, Alt(<<Lit(<<79, 114, 103, 97, 110>>), Lit(<<79,
    82, 71, 65, 78>>), Lit(<<111, 114, 103, 97, 110>>)>>)), AtBoundary>>),
    \* \b(Synth|SYNTH|synth)\b
    Cat(<<AtBoundary, Grp(1, Alt(<<Lit(<<83, 121, 110, 116, 104>>), Lit(<<83,
    89, 78, 84, 72>>), Lit(<<115, 121, 110, 116, 104>>)>>)), AtBoundary>>),
    \* \b(Pad|PAD|pad)\b
    Cat(<<AtBoundary, Grp(1, Alt(<<Lit(<<80, 97, 100>>), Lit(<<80, 65, 68>>),
    Lit(<<112, 97, 100>>)>>)), AtBoundary>>),
    \* \b(Lead|LEAD|lead)\b
    Cat(<<AtBoundary, Grp(1, Alt(<<Lit(<<76, 101, 97, 100>>), Lit(<<76, 69,
    65, 68>>), Lit(<<108, 101, 97, 100>>)>>)), AtBoundary>>),
    \* \b(Brass|BRASS|brass)\b
    Cat(<<AtBoundary, Grp(1, Alt(<<Lit(<<66, 114, 97, 115, 115>>), Lit(<<66,
    82, 65, 83, 83>>), Lit(<<98, 114, 97, 115, 115>>)>>)), AtBoundary>>),
    \* \b(Trumpet|TRUMPET|trumpet|Trompeta)\b
    Cat(<<AtBoundary, Grp(1, Alt(<<Lit(<<84, 114, 117, 109, 112, 101, 116>>),
    Lit(<<84, 82, 85, 77, 80, 69, 84>>), Lit(<<116, 114, 117, 109, 112, 101,
    116>>), Lit(<<84, 114, 111, 109, 112, 101, 116, 97>>)>>)),
    AtBoundary>>),
    \* \b(Sax|SAX|sax|Saxo)\b
    Cat(<<AtBoundary, Grp(1, Alt(<<Lit(<<83, 97, 120>>), Lit(<<83, 65, 88>>),
    Lit(<<115, 97, 120>>), Lit(<<83, 97, 120, 111>>)>>)), AtBoundary>>),
    \* \b(Flute|FLUTE|flute|Fleita|Fluier)\b
    Cat(<<AtBoundary, Grp(1, Alt(<<Lit(<<70, 108, 117, 116, 101>>), Lit(<<70,
    76, 85, 84, 69>>), Lit(<<102, 108, 117, 116, 101>>), Lit(<<70, 108, 101,
    105, 116, 97>>), Lit(<<70, 108, 117, 105, 101, 114>>)>>)),
    AtBoundary>>),
    \* \b(Clarinet|CLARINET|clarinet)\b
    Cat(<<AtBoundary, Grp(1, Alt(<<Lit(<<67, 108, 97, 114, 105, 110, 101,
    116>>), Lit(<<67, 76, 65, 82, 73, 78, 69, 84>>), Lit(<<99, 108, 97, 114,
    105, 110, 101, 116>>)>>)), AtBoundary>>),
    \* \b(Oboe|OBOE|oboe)\b
    Cat(<<AtBoundary, Grp(1, Alt(<<Lit(<<79, 98, 111, 101>>), Lit(<<79, 66,
    79, 69>>), Lit(<<111, 98, 111, 101>>)>>)), AtBoundary>>),
    \* \b(Accordion|ACCORDION|accordion|Acordeon)\b
    Cat(<<AtBoundary, Grp(1, Alt(<<Lit(<<65, 99, 99, 111, 114, 100, 105, 111,
    110>>), Lit(<<65, 67, 67, 79, 82, 68, 73, 79, 78>>), Lit(<<97, 99, 99,
    111, 114, 100, 105, 111, 110>>), Lit(<<65, 99, 111, 114, 100, 101, 111,
    110>>)>>)), AtBoundary>>),
    \* \b(Harmonica|HARMONICA|harmonica)\b
    Cat(<<AtBoundary, Grp(1, Alt(<<Lit(<<72, 97, 114, 109, 111, 110, 105, 99,
    97>>), Lit(<<72, 65, 82, 77, 79, 78, 73, 67, 65>>), Lit(<<104, 97, 114,
    109, 111, 110, 105, 99, 97>>)>>)), AtBoundary>>),
    \* \b(Harp|HARP|harp)\b
    Cat(<<AtBoundary, Grp(1, Alt(<<Lit(<<72, 97, 114, 112>>), Lit(<<72, 65,
    82, 80>>), Lit(<<104, 97, 114, 112>>)>>)), AtBoundary>>),
    \* \b(Marimba|MARIMBA|marimba)\b
    Cat(<<AtBoundary, Grp(1, Alt(<<Lit(<<77, 97, 114, 105, 109, 98, 97>>),
    Lit(<<77, 65, 82, 73, 77, 66, 65>>), Lit(<<109, 97, 114, 105, 109, 98,
    97>>)>>)), AtBoundary>>),
    \* \b(Vibraphone|VIBRAPHONE|vibraphone)\b
    Cat(<<AtBoundary, Grp(1, Alt(<<Lit(<<86, 105, 98, 114, 97, 112, 104, 111,
    110, 101>>), Lit(<<86, 73, 66, 82, 65, 80, 72, 79, 78, 69>>), Lit(<<118,
    105, 98, 114, 97, 112, 104, 111, 110, 101>>)>>)), AtBoundary>>),
    \* \b(Xylophone|XYLOPHONE|xylophone)\b
    Cat(<<AtBoundary, Grp(1, Alt(<<Lit(<<88, 121, 108, 111, 112, 104, 111,
    110, 101>>), Lit(<<88, 89, 76, 79, 80, 72, 79, 78, 69>>), Lit(<<120, 121,
    108, 111, 112, 104, 111, 110, 101>>)>>)), AtBoundary>>),
    \* \b(Voice|VOICE|voice|Choir|CHOIR|choir)\b
    Cat(<<AtBoundary, Grp(1, Alt(<<Lit(<<86, 111, 105, 99, 101>>), Lit(<<86,
    79, 73, 67, 69>>), Lit(<<118, 111, 105, 99, 101>>), Lit(<<67, 104, 111,
    105, 114>>), Lit(<<67, 72, 79, 73, 82>>), Lit(<<99, 104, 111, 105,
    114>>)>>)), AtBoundary>>),
    \* \b(Ocarina|OCARINA|ocarina)\b
    Cat(<<AtBoundary, Grp(1, Alt(<<Lit(<<79, 99, 97, 114, 105, 110, 97>>),
    Lit(<<79, 67, 65, 82, 73, 78, 65>>), Lit(<<111, 99, 97, 114, 105, 110,
    97>>)>>)), AtBoundary>>),
    \* \b(Nai|NAI|nai)\b
    Cat(<<AtBoundary, Grp(1, Alt(<<Lit(<<78, 97, 105>>), Lit(<<78, 65, 73>>),
    Lit(<<110, 97, 105>>)>>)), AtBoundary>>),
    \* \b(Bandon|bandon)\b
    Cat(<<AtBoundary, Grp(1, Alt(<<Lit(<<66, 97, 110, 100, 111, 110>>),
    Lit(<<98, 97, 110, 100, 111, 110>>)>>)), AtBoundary>>),
    \* \b(Zeta|ZETA|zeta)\b
    Cat(<<AtBoundary, Grp(1, Alt(<<Lit(<<90, 101, 116, 97>>), Lit(<<90, 69,
    84, 65>>), Lit(<<122, 101, 116, 97>>)>>)), AtBoundary>>),
    \* \b(banat|Banat|BANAT)\b
    Cat(<<AtBoundary, Grp(1, Alt(<<Lit(<<98, 97, 110, 97, 116>>), Lit(<<66,
    97, 110, 97, 116>>), Lit(<<66, 65, 78, 65, 84>>)>>)), AtBoundary>>),
    \* \b(Blerim|BLERIM)\b
    Cat(<<AtBoundary, Grp(1, Cat(<<Lit(<<66>>), Alt(<<Lit(<<108, 101, 114,
    105, 109>>), Lit(<<76, 69, 82, 73, 77>>)>>)>>)), AtBoundary>>),
    \* \b(Braci|BRACI)\b
    Cat(<<AtBoundary, Grp(1, Cat(<<Lit(<<66>>), Alt(<<Lit(<<114, 97, 99,
    105>>), Lit(<<82, 65, 67, 73>>)>>)>>)), AtBoundary>>),
    \* \b(Returnela|RETURNELA)\b
    Cat(<<AtBoundary, Grp(1, Cat(<<Lit(<<82>>), Alt(<<Lit(<<101, 116, 117,
    114, 110, 101, 108, 97>>), Lit(<<69, 84, 85, 82, 78, 69, 76,
    65>>)>>)>>)), AtBoundary>>)>>

(***************************************************************************)
(* sample_classifier.py: the classification functions                      *)
(***************************************************************************)
DRUMKIT == "drumkit"

MELODIC == "melodic"

UNKNOWN == "unknown"

TxtBass == <<98, 97, 115, 115>>

TxtDrum == <<100, 114, 117, 109>>

TxtSharp == <<115, 104, 97, 114, 112>>

\* note_map of _detect_note
SharpNoteMap(base_note) ==
    CASE base_note = <<68, 111>> -> <<67, 35>>
      [] base_note = <<82, 101>> -> <<68, 35>>
      [] base_note = <<77, 105>> -> <<70>>
      [] base_note = <<70, 97>> -> <<70, 35>>
      [] base_note = <<83, 111, 108>> -> <<71, 35>>
      [] base_note = <<76, 97>> -> <<65, 35>>
      [] base_note = <<83, 105>> -> <<67>>
      [] OTHER -> <<>>

\* _is_drum_sample
IsDrumSample(name) ==
    \E k \in 1..Len(DRUM_PATTERNS) : Search(DRUM_PATTERNS[k], name, TRUE) # <<>>

\* _detect_note taking the note from the first group whatever the pattern
NoteOfGroupOnly(name, k, m) ==
    LET octave == IF GroupText(name, m, 2) # <<>>
                  THEN ParseInt(GroupText(name, m, 2))
                  ELSE -1
    IN  [note |-> GroupText(name, m, 1), octave |-> octave]

\* what _detect_note returns on the match m of pattern k
NoteOf(name, k, m) ==
    LET note_override == MELODIC_PATTERNS[k].note_override
        octave == IF GroupText(name, m, 2) # <<>>
                  THEN ParseInt(GroupText(name, m, 2))
                  ELSE -1
    IN  IF note_override = TxtSharp
        THEN [note |-> SharpNoteMap(GroupText(name, m, 1)), octave |-> octave]
        ELSE IF note_override # <<>>
        THEN [note |-> note_override, octave |-> octave]
        ELSE [note |-> GroupText(name, m, 1), octave |-> octave]

\* the for loop of _detect_note from pattern k on
RECURSIVE DetectNoteFrom(_, _)
DetectNoteFrom(name, k) ==
    IF k > Len(MELODIC_PATTERNS) THEN [note |-> <<>>, octave |-> -1]
    ELSE LET match == Search(MELODIC_PATTERNS[k].re, name, FALSE)
         IN  IF match # <<>> THEN NoteOf(name, k, match[1])
             ELSE DetectNoteFrom(name, k + 1)

\* _detect_note: (note, octave), ('', -1) when no pattern matches
DetectNote(name) == DetectNoteFrom(name, 1)

\* _has_melodic_instrument
HasMelodicInstrument(name) ==
    /\ \E k \in 1..Len(MELODIC_INSTRUMENT_PATTERNS) :
          Search(MELODIC_INSTRUMENT_PATTERNS[k], name, TRUE) # <<>>
    /\ ~(Contains(Lower(name), TxtBass) /\ Contains(Lower(name), TxtDrum))

\* the names of context_samples other than name that count as percussion
DrumCount(name, context_samples) ==
    Cardinality({k \in 1..Len(context_samples) :
                    /\ context_samples[k] # name
                    /\ IsDrumSample(context_samples[k])})

\* the names of context_samples other than name that count as melodic
MelodicCount(name, context_samples) ==
    Cardinality({k \in 1..Len(context_samples) :
                    /\ context_samples[k] # name
                    /\ ~IsDrumSample(context_samples[k])
                    /\ \/ DetectNote(context_samples[k]).note # <<>>
                       \/ HasMelodicInstrument(context_samples[k])})

\* _infer_from_context as it would read if a tie went to the pitched role
InferFromContextTiePitched(name, context_samples) ==
    LET drum_count == DrumCount(name, context_samples)
        melodic_count == MelodicCount(name, context_samples)
    IN  IF melodic_count >= drum_count THEN MELODIC
        ELSE DRUMKIT

\* _infer_from_context
InferFromContext(name, context_samples) ==
    LET drum_count == DrumCount(name, context_samples)
        melodic_count == MelodicCount(name, context_samples)
    IN  IF melodic_count > drum_count THEN MELODIC
        ELSE IF drum_count > melodic_count THEN DRUMKIT
        ELSE UNKNOWN

\* classify_sample as it would read with the note patterns tried before the
\* percussion patterns
ClassifySampleNotesFirst(name, context_samples) ==
    LET found == DetectNote(name)
        context_type == InferFromContext(name, context_samples)
    IN  IF found.note # <<>>
        THEN [sample_type |-> MELODIC, note |-> found.note,
              octave |-> found.octave]
        ELSE IF IsDrumSample(name)
        THEN [sample_type |-> DRUMKIT, note |-> <<>>, octave |-> -1]
        ELSE IF HasMelodicInstrument(name)
        THEN [sample_type |-> MELODIC, note |-> <<>>, octave |-> -1]
        ELSE IF context_samples # <<>> /\ context_type # UNKNOWN
        THEN [sample_type |-> context_type, note |-> <<>>, octave |-> -1]
        ELSE [sample_type |-> UNKNOWN, note |-> <<>>, octave |-> -1]

\* classify_sample: (sample_type, detected_note, detected_octave)
ClassifySample(name, context_samples) ==
    LET found == DetectNote(name)
        context_type == InferFromContext(name, context_samples)
    IN  IF IsDrumSample(name)
        THEN [sample_type |-> DRUMKIT, note |-> <<>>, octave |-> -1]
        ELSE IF found.note # <<>>
        THEN [sample_type |-> MELODIC, note |-> found.note,
              octave |-> found.octave]
        ELSE IF HasMelodicInstrument(name)
        THEN [sample_type |-> MELODIC, note |-> <<>>, octave |-> -1]
        ELSE IF context_samples # <<>> /\ context_type # UNKNOWN
        THEN [sample_type |-> context_type, note |-> <<>>, octave |-> -1]
        ELSE [sample_type |-> UNKNOWN, note |-> <<>>, octave |-> -1]

(***************************************************************************)
(* The calls made on the classifier                                        *)
(***************************************************************************)
MaxRuns == 2

MaxSamples == 2

\* "KICK1"
NameKICK1 == <<75, 73, 67, 75, 49>>

\* "SNARE_Gby"
NameSNARE_Gby == <<83, 78, 65, 82, 69, 95, 71, 98, 121>>

\* "CLOPOTEI"
NameCLOPOTEI == <<67, 76, 79, 80, 79, 84, 69, 73>>

\* "SNARE"
NameSNARE == <<83, 78, 65, 82, 69>>

\* "Do 1 banat"
NameDo1Banat == <<68, 111, 32, 49, 32, 98, 97, 110, 97, 116>>

\* "FLC4"
NameFLC4 == <<70, 76, 67, 52>>

\* "Piano"
NamePiano == <<80, 105, 97, 110, 111>>

\* "FaDiez2"
NameFaDiez2 == <<70, 97, 68, 105, 101, 122, 50>>

\* "Piano_C#3"
NamePianoC3 == <<80, 105, 97, 110, 111, 95, 67, 35, 51>>

\* "Bass drum"
NameBassDrum == <<66, 97, 115, 115, 32, 100, 114, 117, 109>>

\* "KICK C4"
NameKickC4 == <<75, 73, 67, 75, 32, 67, 52>>

\* "Piano KICK"
NamePianoKick == <<80, 105, 97, 110, 111, 32, 75, 73, 67, 75>>

\* "Bass drums"
NameBassDrums == <<66, 97, 115, 115, 32, 100, 114, 117, 109, 115>>

\* "x"
NameX == <<120>>

\* "Loop 7"
NameLoop == <<76, 111, 111, 112, 32, 55>>

TxtUnknownFile == <<117, 110, 107, 110, 111, 119, 110>>

\* the names classify_sample is called with
ClsNames ==
    {NameKICK1, NameSNARE_Gby, NameCLOPOTEI, NameSNARE, NameDo1Banat, NameFLC4,
     NamePiano, NameFaDiez2, NamePianoC3, NameBassDrum, NameKickC4,
     NamePianoKick, NameBassDrums, NameX, NameLoop}

\* the sibling names classify_sample is called with; <<>> is no context
ClsContexts ==
    {<<>>, <<NameKICK1, NameSNARE, NameX>>, <<NameDo1Banat, NameFLC4, NameX>>,
     <<NameLoop, NameX>>, <<NameKICK1, NameFLC4>>}

\* a SampleInfo as the classifier sees it: the fields it reads and the
\* fields it sets, these with the defaults of korg_types.py
ClsSample(nm, pf) ==
    [name |-> nm, pcm_file |-> pf, sample_type |-> UNKNOWN,
     detected_note |-> <<>>, detected_octave |-> -1]

\* the samples classify_all_samples is called with: fresh from the decoders
ClsSamples ==
    {ClsSample(nm, pf) : nm \in {NameKICK1, NameDo1Banat, NameX, NameLoop},
                         pf \in {<<>>, XPCM}}

ClsSampleLists == UNION {[1..n -> ClsSamples] : n \in 1..MaxSamples}

\* the key classify_all_samples groups a sample under
PcmKey(sample) ==
    IF sample.pcm_file = <<>> THEN TxtUnknownFile ELSE sample.pcm_file

\* the names of the samples of a list
RECURSIVE NamesOf(_)
NamesOf(pcm_samples) ==
    IF pcm_samples = <<>> THEN <<>>
    ELSE <<Head(pcm_samples).name>> \o NamesOf(Tail(pcm_samples))

\* context_names taken only from the samples not classified yet
ContextNamesUnclassified(sample_list, pcm) ==
    NamesOf(SelectSeq(sample_list,
                      LAMBDA s : PcmKey(s) = pcm /\ s.sample_type = UNKNOWN))

\* context_names: the names of the samples grouped under pcm
ContextNames(sample_list, pcm) ==
    NamesOf(SelectSeq(sample_list, LAMBDA s : PcmKey(s) = pcm))

\* classify_sample_info
ClassifySampleInfo(sample, context_samples) ==
    LET found == ClassifySample(sample.name, context_samples)
    IN  [sample EXCEPT !.sample_type = found.sample_type,
                       !.detected_note = found.note,
                       !.detected_octave = found.octave]

\* classify_all_samples: the list after the call
ClassifyAllSamples(sample_list) ==
    [k \in 1..Len(sample_list) |->
        ClassifySampleInfo(sample_list[k],
                           ContextNames(sample_list, PcmKey(sample_list[k])))]

ClsInit ==
    /\ cl_name = <<>>
    /\ cl_context = <<>>
    /\ cl_result = <<>>
    /\ cl_last = <<>>
    /\ cl_calls = 0
    /\ cl_samples \in ClsSampleLists \cup {<<>>}
    /\ cl_before = <<>>
    /\ cl_runs = 0

ClsIdle ==
    /\ cl_name = <<>>
    /\ cl_context = <<>>
    /\ cl_result = <<>>
    /\ cl_last = <<>>
    /\ cl_calls = 0
    /\ cl_samples = <<>>
    /\ cl_before = <<>>
    /\ cl_runs = 0

\* classify_sample(name, context_samples), on names alone
ClassifyFirst ==
    /\ cl_samples = <<>>
    /\ cl_calls = 0
    /\ \E name \in ClsNames, context_samples \in ClsContexts :
          /\ cl_name' = name
          /\ cl_context' = context_samples
          /\ cl_result' = <<ClassifySample(name, context_samples)>>
    /\ cl_last' = cl_result
    /\ cl_calls' = 1
    /\ UNCHANGED <<cl_samples, cl_before, cl_runs>>

\* classify_sample called again with the same arguments
ClassifyAgain ==
    /\ cl_calls >= 1
    /\ cl_calls < MaxRuns
    /\ cl_result' = <<ClassifySample(cl_name, cl_context)>>
    /\ cl_last' = cl_result
    /\ cl_calls' = cl_calls + 1
    /\ UNCHANGED <<cl_name, cl_context, cl_samples, cl_before, cl_runs>>

\* classify_all_samples(samples)
ClassifyAll ==
    /\ cl_samples # <<>>
    /\ cl_runs < MaxRuns
    /\ cl_before' = cl_samples
    /\ cl_samples' = ClassifyAllSamples(cl_samples)
    /\ cl_runs' = cl_runs + 1
    /\ UNCHANGED <<cl_name, cl_context, cl_result, cl_last, cl_calls>>

(***************************************************************************)
(* ProgramSampleLinker                                                     *)
(*                                                                         *)
(* A program and a sample stand for their names; a confidence is counted   *)
(* in tenths.                                                              *)
(***************************************************************************)
NAME_MATCH == "name_match"

PATTERN_MATCH == "pattern_match"

PREFIX_MATCH == "prefix_match"

\* the characters _filter_valid_programs refuses: `~!@#$%^&*{}[]|\<>?=
SpecialChars ==
    {96, 126, 33, 64, 35, 36, 37, 94, 38, 42, 123, 125, 91, 93, 124, 92, 60,
    62, 63, 61}

\* aeiouAEIOU
Vowels == {97, 101, 105, 111, 117, 65, 69, 73, 79, 85}

AlphaChars == (65..90) \cup (97..122)

\* a, an, and, at, for, in, of, on, or, the, to
common_exclude ==
    {<<97>>, <<97, 110>>, <<97, 110, 100>>, <<97, 116>>, <<102, 111, 114>>,
    <<105, 110>>, <<111, 102>>, <<111, 110>>, <<111, 114>>, <<116, 104, 101>>,
    <<116, 111>>}

\* drumkit_keywords, in the order of the dict
drumkit_keywords ==
    \* 'toba': ['kick', 'snare', 'tom', 'crash', 'cymbal', 'hihat', 'clap', 'fill', 'cinel', 'daula', 'bd', 'sd']
    <<[keyword |-> <<116, 111, 98, 97>>, sample_patterns |-> {<<107, 105, 99,
    107>>, <<115, 110, 97, 114, 101>>, <<116, 111, 109>>, <<99, 114, 97, 115,
    104>>, <<99, 121, 109, 98, 97, 108>>, <<104, 105, 104, 97, 116>>, <<99,
    108, 97, 112>>, <<102, 105, 108, 108>>, <<99, 105, 110, 101, 108>>, <<100,
    97, 117, 108, 97>>, <<98, 100>>, <<115, 100>>}],
    \* 'kit': ['kick', 'snare', 'tom', 'crash', 'cymbal', 'hihat', 'clap']
    [keyword |-> <<107, 105, 116>>, sample_patterns |-> {<<107, 105, 99, 107>>,
    <<115, 110, 97, 114, 101>>, <<116, 111, 109>>, <<99, 114, 97, 115, 104>>,
    <<99, 121, 109, 98, 97, 108>>, <<104, 105, 104, 97, 116>>, <<99, 108, 97,
    112>>}],
    \* 'drum': ['kick', 'snare', 'tom', 'crash', 'ride', 'hihat']
    [keyword |-> <<100, 114, 117, 109>>, sample_patterns |-> {<<107, 105, 99,
    107>>, <<115, 110, 97, 114, 101>>, <<116, 111, 109>>, <<99, 114, 97, 115,
    104>>, <<114, 105, 100, 101>>, <<104, 105, 104, 97, 116>>}],
    \* 'manele': ['pai', 'clap', 'daula', 'fill']
    [keyword |-> <<109, 97, 110, 101, 108, 101>>, sample_patterns |-> {<<112,
    97, 105>>, <<99, 108, 97, 112>>, <<100, 97, 117, 108, 97>>, <<102, 105,
    108, 108>>}],
    \* 'etno': ['fill', 'dany', 'etno']
    [keyword |-> <<101, 116, 110, 111>>, sample_patterns |-> {<<102, 105, 108,
    108>>, <<100, 97, 110, 121>>, <<101, 116, 110, 111>>}]>>

\* melodic_keywords, in the order of the dict
melodic_keywords ==
    \* 'banat': ['banat', 'do', 're', 'mi', 'fa', 'sol', 'la', 'si']
    <<[keyword |-> <<98, 97, 110, 97, 116>>, sample_patterns |-> {<<98, 97,
    110, 97, 116>>, <<100, 111>>, <<114, 101>>, <<109, 105>>, <<102, 97>>,
    <<115, 111, 108>>, <<108, 97>>, <<115, 105>>}],
    \* 'acordeon': ['acordeon', 'acc', 'do', 're', 'mi']
    [keyword |-> <<97, 99, 111, 114, 100, 101, 111, 110>>,
    sample_patterns |-> {<<97, 99, 111, 114, 100, 101, 111, 110>>, <<97, 99,
    99>>, <<100, 111>>, <<114, 101>>, <<109, 105>>}],
    \* 'vioara': ['vioara', 'violin', 'vio']
    [keyword |-> <<118, 105, 111, 97, 114, 97>>, sample_patterns |-> {<<118,
    105, 111, 97, 114, 97>>, <<118, 105, 111, 108, 105, 110>>, <<118, 105,
    111>>}],
    \* 'flute': ['fl', 'fluier', 'fleita', 'flc', 'fla', 'flg']
    [keyword |-> <<102, 108, 117, 116, 101>>, sample_patterns |-> {<<102,
    108>>, <<102, 108, 117, 105, 101, 114>>, <<102, 108, 101, 105, 116, 97>>,
    <<102, 108, 99>>, <<102, 108, 97>>, <<102, 108, 103>>}],
    \* 'sax': ['sax', 'saxo']
    [keyword |-> <<115, 97, 120>>, sample_patterns |-> {<<115, 97, 120>>,
    <<115, 97, 120, 111>>}],
    \* 'clarinet': ['clr', 'clarinet']
    [keyword |-> <<99, 108, 97, 114, 105, 110, 101, 116>>,
    sample_patterns |-> {<<99, 108, 114>>, <<99, 108, 97, 114, 105, 110, 101,
    116>>}],
    \* 'nai': ['nai', 'zamfir']
    [keyword |-> <<110, 97, 105>>, sample_patterns |-> {<<110, 97, 105>>,
    <<122, 97, 109, 102, 105, 114>>}]>>

\* ProgramSampleLink
ProgramSampleLink(program_name, matched_samples, confidence, link_method) ==
    [program_name |-> program_name, samples |-> matched_samples,
     confidence |-> confidence, link_method |-> link_method]

\* the number of characters of text that are in the set cs
CountIn(text, cs) == Cardinality({k \in 1..Len(text) : text[k] \in cs})

\* one round of the loop of _filter_valid_programs: the program is kept
ValidProgram(prog) ==
    LET name == Strip(prog)
    IN  /\ ~(Len(name) < 3)
        /\ ~(2 * CountIn(name, AlphaChars) < Len(name))
        /\ ~(CountIn(name, SpecialChars) > 0)
        /\ name[1] \in AlphaChars \cup DigitChars
        /\ ~(CountIn(name, Vowels) = 0 /\ Len(name) > 3)

\* _filter_valid_programs
FilterValidPrograms(programs) == SelectSeq(programs, ValidProgram)

\* the runs of word characters of text that no word character borders
WordRuns(text) ==
    {r \in (1..Len(text)) \X (1..Len(text)) :
        /\ r[1] <= r[2]
        /\ \A k \in r[1]..r[2] : text[k] \in WordChars
        /\ r[1] = 1 \/ text[r[1] - 1] \notin WordChars
        /\ r[2] = Len(text) \/ text[r[2] + 1] \notin WordChars}

\* set(re.findall(r'\w+', text))
Words(text) == {SubSeq(text, r[1], r[2]) : r \in WordRuns(text)}

\* the words of over 2 characters that are not common words
SignificantWords(text) == {w \in Words(text) : Len(w) > 2} \ common_exclude

\* the test of _link_by_name_match on one sample
NameMatches(prog, sample) ==
    LET prog_name == Strip(Lower(prog))
        sample_name == Strip(Lower(sample))
    IN  \/ Contains(sample_name, prog_name)
        \/ Contains(prog_name, sample_name)
        \/ SignificantWords(prog_name) \cap SignificantWords(sample_name) # {}

\* matched_samples.append(sample) for each sample of more not in acc yet
RECURSIVE AppendNew(_, _)
AppendNew(acc, more) ==
    IF more = <<>> THEN acc
    ELSE IF \E j \in 1..Len(acc) : acc[j] = Head(more)
    THEN AppendNew(acc, Tail(more))
    ELSE AppendNew(Append(acc, Head(more)), Tail(more))

\* the samples entry k of a keyword table brings for one program
KeywordHits(entry, prog_lower, sample_list) ==
    SelectSeq(sample_list,
              LAMBDA s : /\ Contains(prog_lower, entry.keyword)
                         /\ \E pat \in entry.sample_patterns :
                               Contains(Lower(s), pat))

\* the samples a keyword table adds to matched_samples for one program
RECURSIVE MatchedByTable(_, _, _, _, _)
MatchedByTable(keywords, k, prog_lower, sample_list, matched_samples) ==
    IF k > Len(keywords) THEN matched_samples
    ELSE MatchedByTable(keywords, k + 1, prog_lower, sample_list,
             AppendNew(matched_samples,
                       KeywordHits(keywords[k], prog_lower, sample_list)))

\* matched_samples of _link_by_pattern for one program
PatternMatched(prog, sample_list) ==
    MatchedByTable(melodic_keywords, 1, Lower(prog), sample_list,
        MatchedByTable(drumkit_keywords, 1, Lower(prog), sample_list, <<>>))

\* name[:4].lower() if len(name) >= 4 else name.lower()
Prefix4(name) == Lower(SubSeq(name, 1, Min(4, Len(name))))

\* the test of _link_by_prefix on one sample
PrefixMatches(prog, sample) == Prefix4(prog) = Prefix4(sample)

\* self.links[key] = link
SetLink(links, key, link) ==
    [p \in DOMAIN links \cup {key} |-> IF p = key THEN link ELSE links[p]]

\* _link_by_name_match from program k on
RECURSIVE LinkByNameMatch(_, _, _, _)
LinkByNameMatch(programs, k, sample_list, links) ==
    IF k > Len(programs) THEN links
    ELSE LET prog == programs[k]
             matched_samples ==
                 SelectSeq(sample_list, LAMBDA s : NameMatches(prog, s))
         IN  IF Strip(Lower(prog)) = <<>> \/ matched_samples = <<>>
             THEN LinkByNameMatch(programs, k + 1, sample_list, links)
             ELSE LinkByNameMatch(programs, k + 1, sample_list,
                      SetLink(links, prog,
                              ProgramSampleLink(prog, matched_samples, 7,
                                                NAME_MATCH)))

\* _link_by_pattern with no test for a link made before
RECURSIVE LinkByPatternNoSkip(_, _, _, _)
LinkByPatternNoSkip(programs, k, sample_list, links) ==
    IF k > Len(programs) THEN links
    ELSE LET prog == programs[k]
             matched_samples == PatternMatched(prog, sample_list)
         IN  IF matched_samples = <<>>
             THEN LinkByPatternNoSkip(programs, k + 1, sample_list, links)
             ELSE LinkByPatternNoSkip(programs, k + 1, sample_list,
                      SetLink(links, prog,
                              ProgramSampleLink(prog, matched_samples, 5,
                                                PATTERN_MATCH)))

\* _link_by_pattern from program k on
RECURSIVE LinkByPattern(_, _, _, _)
LinkByPattern(programs, k, sample_list, links) ==
    IF k > Len(programs) THEN links
    ELSE LET prog == programs[k]
             matched_samples == PatternMatched(prog, sample_list)
         IN  IF prog \in DOMAIN links \/ matched_samples = <<>>
             THEN LinkByPattern(programs, k + 1, sample_list, links)
             ELSE LinkByPattern(programs, k + 1, sample_list,
                      SetLink(links, prog,
                              ProgramSampleLink(prog, matched_samples, 5,
                                                PATTERN_MATCH)))

\* _link_by_prefix from program k on
RECURSIVE LinkByPrefix(_, _, _, _)
LinkByPrefix(programs, k, sample_list, links) ==
    IF k > Len(programs) THEN links
    ELSE LET prog == programs[k]
             matched_samples ==
                 SelectSeq(sample_list, LAMBDA s : PrefixMatches(prog, s))
         IN  IF prog \in DOMAIN links \/ matched_samples = <<>>
             THEN LinkByPrefix(programs, k + 1, sample_list, links)
             ELSE LinkByPrefix(programs, k + 1, sample_list,
                      SetLink(links, prog,
                              ProgramSampleLink(prog, matched_samples, 3,
                                                PREFIX_MATCH)))

\* link_all: self.links when it returns
LinkAllFrom(programs, sample_list) ==
    LET valid == FilterValidPrograms(programs)
        named == LinkByNameMatch(valid, 1, sample_list, EmptyDict)
        patterned == LinkByPattern(valid, 1, sample_list, named)
    IN  LinkByPrefix(valid, 1, sample_list, patterned)


(***************************************************************************)
(* The programs and samples a linker is loaded with                        *)
(***************************************************************************)
MaxPrograms == 2

\* "Piano"
ProgPiano == <<80, 105, 97, 110, 111>>

\* "Toba Kit"
ProgTobaKit == <<84, 111, 98, 97, 32, 75, 105, 116>>

\* "Drum Kick"
ProgDrumKick == <<68, 114, 117, 109, 32, 75, 105, 99, 107>>

\* "Oboe Solo"
ProgOboeSolo == <<79, 98, 111, 101, 32, 83, 111, 108, 111>>

\* "Banat 1 "
ProgBanat == <<66, 97, 110, 97, 116, 32, 49, 32>>

\* "Organ"
ProgOrgan == <<79, 114, 103, 97, 110>>

\* "Xq#1"
ProgGarbage == <<88, 113, 35, 49>>

\* "KICK1"
SmpKICK1 == <<75, 73, 67, 75, 49>>

\* "Kick 2"
SmpKick2 == <<75, 105, 99, 107, 32, 50>>

\* "Piano_C4"
SmpPianoC4 == <<80, 105, 97, 110, 111, 95, 67, 52>>

\* "OboeX"
SmpOboeX == <<79, 98, 111, 101, 88>>

\* "Do 1"
SmpDo1 == <<68, 111, 32, 49>>

\* "banat la"
SmpBanat == <<98, 97, 110, 97, 116, 32, 108, 97>>

\* the program names PCG decoding hands over, a rejected one among them
ProgramNames ==
    {ProgPiano, ProgTobaKit, ProgDrumKick, ProgOboeSolo, ProgBanat, ProgOrgan,
     ProgGarbage}

ProgramLists == UNION {[1..n -> ProgramNames] : n \in 1..MaxPrograms}

\* the sample lists: the names of a list differ
SampleLists ==
    {<<>>, <<SmpKICK1, SmpPianoC4>>, <<SmpKick2, SmpOboeX, SmpKICK1>>,
     <<SmpDo1, SmpBanat>>, <<SmpOboeX, SmpPianoC4, SmpDo1>>}

LkInit ==
    /\ lk_programs \in ProgramLists
    /\ lk_samples \in SampleLists
    /\ lk_links = EmptyDict
    /\ lk_pc = "loaded"

LkIdle ==
    /\ lk_programs = <<>>
    /\ lk_samples = <<>>
    /\ lk_links = EmptyDict
    /\ lk_pc = "idle"

\* link_all()
LinkAll ==
    /\ lk_pc = "loaded"
    /\ lk_programs' = FilterValidPrograms(lk_programs)
    /\ lk_links' = LinkAllFrom(lk_programs, lk_samples)
    /\ lk_pc' = "linked"
    /\ UNCHANGED lk_samples

(***************************************************************************)
(* PCGParser                                                               *)
(***************************************************************************)
PCG1 == <<80, 67, 71, 49>>

pcg1 == <<112, 99, 103, 49>>

KORG == <<75, 79, 82, 71>>

MinPcgLen == 64

TxtUnknown == <<85, 110, 107, 110, 111, 119, 110>>

ProgramChunkIds == {<<80, 82, 71, 49>>, <<80, 82, 79, 71>>, <<112, 114, 103, 49>>}

CombinationChunkIds == {<<67, 77, 66, 49>>, <<67, 79, 77, 66>>, <<99, 109, 98, 49>>}

GlobalChunkIds == {<<71, 76, 66, 49>>, <<71, 76, 79, 66>>, <<103, 108, 98, 49>>}

\* CATEGORIES, entry k + 1 for the key k
CATEGORIES ==
    <<<<80, 105, 97, 110, 111>>,
      <<69, 46, 80, 105, 97, 110, 111>>,
      <<79, 114, 103, 97, 110>>,
      <<71, 117, 105, 116, 97, 114>>,
      <<66, 97, 115, 115>>,
      <<83, 116, 114, 105, 110, 103, 115>>,
      <<66, 114, 97, 115, 115>>,
      <<87, 111, 111, 100, 119, 105, 110, 100>>,
      <<83, 121, 110, 116, 104, 32, 76, 101, 97, 100>>,
      <<83, 121, 110, 116, 104, 32, 80, 97, 100>>,
      <<83, 121, 110, 116, 104, 32, 70, 88>>,
      <<69, 116, 104, 110, 105, 99>>,
      <<80, 101, 114, 99, 117, 115, 115, 105, 111, 110>>,
      <<68, 114, 117, 109, 115>>,
      <<83, 70, 88>>,
      <<85, 115, 101, 114>>>>

ProgramEntrySizes == <<128, 256, 512, 1024>>

MaxChunkPrograms == 500

MaxEntries == 128

DefaultMaxPrograms == 50

Pcg1MaxPrograms == 1000

MinRunLen == 4

MaxRunLen == 32

\* Program
Program(nm, bk, num, cat) == [name |-> nm, bank |-> bk, number |-> num, category |-> cat]

\* bytes.decode('ascii', errors='ignore'): the bytes above 127 are dropped
AsciiIgnore(b) == SelectSeq(b, LAMBDA c : c < 128)

\* the characters str.strip() removes from ASCII text
Whitespace == {9, 10, 11, 12, 13, 28, 29, 30, 31, 32}

\* str.strip() of ASCII text
StripWhitespace(text) ==
    LET keep == {k \in 1..Len(text) : text[k] \notin Whitespace}
    IN  IF keep = {} THEN <<>>
        ELSE SubSeq(text, SetMin(keep), CHOOSE k \in keep : \A j \in keep : j <= k)

\* f"{i:03d}"
ZeroPad3(i) ==
    IF i < 10 THEN <<48, 48>> \o Decimal(i)
    ELSE IF i < 100 THEN <<48>> \o Decimal(i)
    ELSE Decimal(i)

\* the while loop of _scan_for_programs from pos on; prog_count is the
\* number of programs found so far.  A byte that is not printable moves
\* the cursor by one, so the next run starts at the next printable byte
\* before len(data) - 32
RECURSIVE ScanFrom(_, _, _, _)
ScanFrom(d, pos, programs, max_programs) ==
    LET starts == {p \in pos..(Len(d) - MaxRunLen - 1) : Printable(At(d, p))}
    IN  IF ~(Len(programs) < max_programs) \/ starts = {} THEN programs
        ELSE LET first == SetMin(starts)
                 stops == {e \in (first + 1)..Min(first + MaxRunLen, Len(d)) :
                              \/ e = Len(d)
                              \/ e - first = MaxRunLen
                              \/ ~Printable(At(d, e))}
                 end == SetMin(stops)
                 name == StripWhitespace(Slice(d, first, end))
                 prog_count == Len(programs)
             IN  IF /\ end - first >= MinRunLen
                    /\ Len(name) >= 3
                    /\ \E k \in 1..Len(name) : name[k] \in AlphaChars
                 THEN ScanFrom(d, end,
                               Append(programs,
                                      Program(name, prog_count \div 128,
                                              prog_count % 128, TxtUnknown)),
                               max_programs)
                 ELSE ScanFrom(d, end, programs, max_programs)

\* _scan_for_programs
ScanForPrograms(d, base_name, max_programs) == ScanFrom(d, 0, <<>>, max_programs)

\* _parse_program_entry, for an entry of 32 bytes or more (None is returned
\* for a shorter one, and the entry sizes are 128 and more)
ParseProgramEntry(entry, name, index) ==
    LET name_end == FindZero(entry, 0, 24)
        extracted == IF name_end > 0
                     THEN StripWhitespace(AsciiIgnore(Slice(entry, 0, name_end)))
                     ELSE <<>>
    IN  Program(IF Len(extracted) >= 2 THEN extracted ELSE name,
                At(entry, 25), index, CATEGORIES[(At(entry, 24) % 16) + 1])

\* _parse_program_chunk
ParseProgramChunk(d, base_name) ==
    IF Len(d) < 4 THEN <<>>
    ELSE LET first_count == U16LE(d, 0)
             num_programs == IF first_count > MaxChunkPrograms
                             THEN U16LE(d, 2) ELSE first_count
             fits == {k \in 1..Len(ProgramEntrySizes) :
                         4 + num_programs * ProgramEntrySizes[k] <= Len(d)}
         IN  IF num_programs > MaxChunkPrograms
             THEN ScanForPrograms(d, base_name, DefaultMaxPrograms)
             ELSE IF num_programs = 0 \/ fits = {} THEN <<>>
             ELSE LET entry_size == ProgramEntrySizes[SetMin(fits)]
                  IN  [k \in 1..Min(num_programs, MaxEntries) |->
                          ParseProgramEntry(
                              Slice(d, 4 + (k - 1) * entry_size,
                                    4 + k * entry_size),
                              base_name \o <<95>> \o ZeroPad3(k - 1), k - 1)]

\* the while loop of _parse_korg_format from pos on.  A position that holds
\* no chunk identifier moves the cursor by one, so the next step is at the
\* next identifier before len(data) - 8; a declared size is cut at len(data),
\* beyond which the loop ends anyway
RECURSIVE ChunksFrom(_, _, _, _)
ChunksFrom(d, name, pos, programs) ==
    LET marks == {p \in pos..(Len(d) - 9) :
                     Slice(d, p, p + 4) \in
                         ProgramChunkIds \cup CombinationChunkIds \cup GlobalChunkIds}
    IN  IF marks = {} THEN programs
        ELSE LET at == SetMin(marks)
                 chunk_id == Slice(d, at, at + 4)
                 chunk_size == Min(U32LE(d, at + 4), Len(d))
             IN  IF chunk_id \in ProgramChunkIds
                 THEN IF chunk_size > 0 /\ at + 8 + chunk_size <= Len(d)
                      THEN ChunksFrom(d, name, at + 8 + chunk_size,
                                      programs \o
                                      ParseProgramChunk(
                                          Slice(d, at + 8, at + 8 + chunk_size),
                                          name))
                      ELSE ChunksFrom(d, name, at + 1, programs)
                 ELSE ChunksFrom(d, name, at + 8 + chunk_size, programs)

\* _parse_korg_format
ParseKorgFormat(d, name) ==
    LET programs == ChunksFrom(d, name, 4, <<>>)
    IN  IF programs = <<>> THEN ScanForPrograms(d, name, DefaultMaxPrograms)
        ELSE programs

\* _parse_pcg1_format; with 64 bytes and more the read of the count cannot fail
ParsePcg1Format(d, name) ==
    LET num_programs == U16LE(d, 8)
    IN  IF num_programs > 0 /\ num_programs < Pcg1MaxPrograms
        THEN ScanForPrograms(d, name, num_programs)
        ELSE ScanForPrograms(d, name, DefaultMaxPrograms)

\* PCGParser._parse_generic_format
ParsePcgGeneric(d, name) == ScanForPrograms(d, name, DefaultMaxPrograms)

\* PCGParser.parse
PCGParse(d, name) ==
    IF Len(d) < MinPcgLen THEN <<>>
    ELSE IF Slice(d, 0, 4) = KORG THEN ParseKorgFormat(d, name)
    ELSE IF Slice(d, 0, 4) \in {PCG1, pcg1} THEN ParsePcg1Format(d, name)
    ELSE ParsePcgGeneric(d, name)

(***************************************************************************)
(* identify_file_type and the package types                                *)
(***************************************************************************)
SETi == <<83, 69, 84, 105>>

SET1 == <<83, 69, 84, 49>>

MPC1 == <<77, 80, 67, 49>>

STY1 == <<83, 84, 89, 49>>

\* b'PK\x03\x04'
ZipLocalHeader == <<80, 75, 3, 4>>

\* b'PK\x05\x06', the end-of-central-directory record zipfile looks for
ZipEndRecord == <<80, 75, 5, 6>>

TxtWavAudio == <<87, 65, 86, 32, 65, 117, 100, 105, 111>>

TxtRiffContainer == <<82, 73, 70, 70, 32, 67, 111, 110, 116, 97, 105, 110, 101, 114, 32, 40, 109, 97, 121, 32, 99, 111, 110, 116, 97, 105, 110, 32, 75, 111, 114, 103, 32, 100, 97, 116, 97, 41>>

\* KORG_SIGNATURES: the signatures and the type each one names
KORG_SIGNATURES ==
    <<<<KORG, <<71, 101, 110, 101, 114, 105, 99, 32, 75, 111, 114, 103>>>>,
      <<SETi, <<75, 111, 114, 103, 32, 83, 69, 84, 32, 80, 97, 99, 107, 97, 103, 101>>>>,
      <<PCG1, <<75, 111, 114, 103, 32, 80, 67, 71, 32, 118, 49>>>>,
      <<MPC1, <<75, 111, 114, 103, 32, 77, 80, 67>>>>,
      <<KMP1, <<75, 111, 114, 103, 32, 77, 117, 108, 116, 105, 115, 97, 109, 112, 108, 101>>>>,
      <<KSF1, <<75, 111, 114, 103, 32, 83, 97, 109, 112, 108, 101, 32, 70, 105, 108, 101>>>>,
      <<STY1, <<75, 111, 114, 103, 32, 83, 116, 121, 108, 101>>>>,
      <<RIFF, TxtRiffContainer>>,
      <<ZipLocalHeader, <<90, 73, 80, 32, 65, 114, 99, 104, 105, 118, 101, 32, 40, 115, 111, 109, 101, 32, 75, 111, 114, 103, 32, 112, 97, 99, 107, 97, 103, 101, 115, 32, 117, 115, 101, 32, 90, 73, 80, 41>>>>>>

\* identify_file_type
IdentifyFileType(d) ==
    IF Len(d) < 4 THEN TxtUnknown
    ELSE IF Slice(d, 0, 4) = RIFF /\ Len(d) >= 12
    THEN IF Slice(d, 8, 12) = WAVE THEN TxtWavAudio ELSE TxtRiffContainer
    ELSE LET hits == {k \in 1..Len(KORG_SIGNATURES) :
                         StartsWith(d, KORG_SIGNATURES[k][1])}
         IN  IF hits = {} THEN TxtUnknown
             ELSE KORG_SIGNATURES[SetMin(hits)][2]

\* KNOWN_EXTENSIONS
KNOWN_EXTENSIONS ==
    <<<<<<46, 112, 99, 103>>, <<80, 114, 111, 103, 114, 97, 109, 47, 67, 111, 109, 98, 105, 110, 97, 116, 105, 111, 110>>>>,
      <<<<46, 107, 109, 112>>, <<77, 117, 108, 116, 105, 115, 97, 109, 112, 108, 101>>>>,
      <<<<46, 107, 115, 102>>, <<83, 97, 109, 112, 108, 101>>>>,
      <<<<46, 115, 116, 121>>, <<83, 116, 121, 108, 101>>>>,
      <<<<46, 107, 115, 99>>, <<83, 99, 114, 105, 112, 116, 32, 67, 111, 108, 108, 101, 99, 116, 105, 111, 110>>>>,
      <<<<46, 109, 105, 100>>, <<77, 73, 68, 73>>>>,
      <<<<46, 119, 97, 118>>, <<65, 117, 100, 105, 111>>>>,
      <<<<46, 112, 97, 100>>, <<80, 97, 100, 32, 68, 97, 116, 97>>>>,
      <<<<46, 115, 101, 116>>, <<83, 117, 98, 45, 112, 97, 99, 107, 97, 103, 101>>>>>>

\* KNOWN_EXTENSIONS.get(ext, default)
KnownExtension(ext, default) ==
    LET hits == {k \in 1..Len(KNOWN_EXTENSIONS) : KNOWN_EXTENSIONS[k][1] = ext}
    IN  IF hits = {} THEN default ELSE KNOWN_EXTENSIONS[SetMin(hits)][2]

\* the last position (1-based) of the character c in text, 0 when it has none
LastIndexOf(text, c) ==
    LET occ == {k \in 1..Len(text) : text[k] = c}
    IN  IF occ = {} THEN 0 ELSE CHOOSE k \in occ : \A j \in occ : j <= k

\* Path(name).suffix, for a name that holds no path separator
Suffix(name) ==
    LET dot == LastIndexOf(name, 46)
    IN  IF 1 < dot /\ dot < Len(name) THEN SubSeq(name, dot, Len(name)) ELSE <<>>

\* Path(name).stem, for a name that holds no path separator
Stem(name) == SubSeq(name, 1, Len(name) - Len(Suffix(name)))

\* text.endswith(sub)
EndsWith(text, sub) == MatchAt(text, sub, Len(text) - Len(sub))

\* EmbeddedFile; data is <<>> for None and <<bytes>> otherwise
EmbeddedFile(nm, ft, off, sz, comp, dt) == [name |-> nm, file_type |-> ft, offset |-> off, size |-> sz, compressed |-> comp, data |-> dt]

\* SetPackage; drum_kits stays empty, raw_data is <<>> for None
SetPackage(nm, mdl, raw) == [name |-> nm, version |-> <<>>, model |-> mdl, embedded_files |-> <<>>, programs |-> <<>>, multisamples |-> <<>>, samples |-> <<>>, styles |-> <<>>, raw_data |-> raw]

(***************************************************************************)
(* SetParser                                                               *)
(***************************************************************************)
MinSetLen == 16

MaxFileCount == 1000

CountOffsets == <<12, 16, 20>>

TableEntrySizes == <<32, 48, 64, 128>>

IndexEntrySize == 64

TxtDotKsf == <<46, 107, 115, 102>>

TxtDotKmp == <<46, 107, 109, 112>>

TxtDotPcg == <<46, 112, 99, 103>>

TxtDotWav == <<46, 119, 97, 118>>

TxtSampleWord == <<83, 97, 109, 112, 108, 101>>

TxtMultisample == <<77, 117, 108, 116, 105, 115, 97, 109, 112, 108, 101>>

TxtPCG == <<80, 67, 71>>

TxtWAV == <<87, 65, 86>>

TxtFile == <<102, 105, 108, 101, 95>>

TxtEmbedded == <<101, 109, 98, 101, 100, 100, 101, 100, 95>>

\* the signatures _scan_for_embedded_files looks for, with their extensions
ScanSignatures ==
    <<<<KSF1, <<107, 115, 102>>>>,
      <<KMP1, <<107, 109, 112>>>>,
      <<PCG1, <<112, 99, 103>>>>,
      <<KORG, <<107, 111, 114, 103>>>>,
      <<RIFF, <<114, 105, 102, 102>>>>,
      <<STY1, <<115, 116, 121>>>>>>

\* _parse_embedded_file: the package after the file has gone to its decoder
ParseEmbeddedFile(embedded, package, like) ==
    IF embedded.data = <<>> \/ embedded.data[1] = <<>> THEN package
    ELSE LET ext == Lower(Suffix(embedded.name))
             file_data == embedded.data[1]
         IN  IF ext = TxtDotKsf \/ Contains(embedded.file_type, TxtSampleWord)
             THEN [package EXCEPT !.samples =
                      @ \o KSFParse(file_data, embedded.name, like)]
             ELSE IF ext = TxtDotKmp \/ Contains(embedded.file_type, TxtMultisample)
             THEN [package EXCEPT !.multisamples =
                      @ \o KMPParse(file_data, embedded.name)]
             ELSE IF ext = TxtDotPcg \/ Contains(embedded.file_type, TxtPCG)
             THEN [package EXCEPT !.programs =
                      @ \o PCGParse(file_data, embedded.name)]
             ELSE IF ext = TxtDotWav \/ Contains(embedded.file_type, TxtWAV)
             THEN [package EXCEPT !.samples =
                      @ \o KSFParse(file_data, embedded.name, like)]
             ELSE package

\* package.embedded_files.append(embedded); self._parse_embedded_file(...)
AddEmbedded(embedded, package, like) ==
    ParseEmbeddedFile(embedded,
                      [package EXCEPT !.embedded_files = Append(@, embedded)],
                      like)

\* found_positions of _scan_for_embedded_files after the sort: the positions
\* where a signature occurs, ascending (no two signatures occur at one place)
FoundPositions(d) ==
    LET occ == UNION {Occurrences(d, ScanSignatures[k][1]) :
                         k \in 1..Len(ScanSignatures)}
        nth[i \in 1..Cardinality(occ)] ==
            CHOOSE p \in occ : Cardinality({q \in occ : q < p}) = i - 1
    IN  nth

\* the extension that goes with the signature at pos
ExtensionAt(d, pos) ==
    ScanSignatures[CHOOSE k \in 1..Len(ScanSignatures) :
                       MatchAt(d, ScanSignatures[k][1], pos)][2]

\* the loop of _scan_for_embedded_files with every file running to the end
\* of the buffer: what the scan would produce if it did not stop a file at
\* the next signature
RECURSIVE ExtractFoundToEnd(_, _, _, _, _)
ExtractFoundToEnd(d, found_positions, i, package, like) ==
    IF i >= Len(found_positions) THEN package
    ELSE LET pos == found_positions[i + 1]
             file_data == Slice(d, pos, Len(d))
             embedded == EmbeddedFile(
                 TxtEmbedded \o ZeroPad3(i) \o <<46>> \o ExtensionAt(d, pos),
                 IdentifyFileType(file_data), pos, Len(file_data), FALSE,
                 <<file_data>>)
         IN  ExtractFoundToEnd(d, found_positions, i + 1,
                               AddEmbedded(embedded, package, like), like)

\* the loop of _scan_for_embedded_files from the (i + 1)-th position on
RECURSIVE ExtractFound(_, _, _, _, _)
ExtractFound(d, found_positions, i, package, like) ==
    IF i >= Len(found_positions) THEN package
    ELSE LET pos == found_positions[i + 1]
             next_pos == IF i + 1 < Len(found_positions)
                         THEN found_positions[i + 2] ELSE Len(d)
             file_data == Slice(d, pos, next_pos)
             embedded == EmbeddedFile(
                 TxtEmbedded \o ZeroPad3(i) \o <<46>> \o ExtensionAt(d, pos),
                 IdentifyFileType(file_data), pos, Len(file_data), FALSE,
                 <<file_data>>)
         IN  ExtractFound(d, found_positions, i + 1,
                          AddEmbedded(embedded, package, like), like)

\* _scan_for_embedded_files
ScanForEmbeddedFiles(d, package, like) ==
    ExtractFound(d, FoundPositions(d), 0, package, like)

\* data[pos:pos+width].split(b'\x00')[0].decode('ascii', errors='ignore')
EntryName(d, pos, width) ==
    LET name_end == FindZero(d, pos, pos + width)
    IN  AsciiIgnore(Slice(d, pos, IF name_end < 0 THEN pos + width ELSE name_end))

\* offset > 0 and size > 0 and offset + size <= len(data)
EntryInside(d, file_offset, file_size) ==
    /\ file_offset > 0
    /\ file_size > 0
    /\ file_offset <= Len(d)
    /\ file_size <= Len(d) - file_offset

\* the embedded file a table entry describes
EntryFile(d, name, i, file_offset, file_size, compressed) ==
    LET file_data == Slice(d, file_offset, file_offset + file_size)
    IN  EmbeddedFile(IF name = <<>> THEN TxtFile \o ZeroPad3(i) ELSE name,
                     KnownExtension(IF name = <<>> THEN <<>> ELSE Lower(Suffix(name)),
                                    IdentifyFileType(file_data)),
                     file_offset, file_size, compressed, <<file_data>>)

\* the entries of _parse_file_table for one entry size, from entry i on
RECURSIVE TableEntriesFrom(_, _, _, _, _, _, _)
TableEntriesFrom(d, pos, count, entry_size, i, package, like) ==
    IF i >= count THEN package
    ELSE LET entry_pos == pos + i * entry_size
             file_offset == U32LE(d, entry_pos + 24)
             file_size == U32LE(d, entry_pos + 28)
         IN  TableEntriesFrom(d, pos, count, entry_size, i + 1,
                 IF EntryInside(d, file_offset, file_size)
                 THEN AddEmbedded(EntryFile(d, EntryName(d, entry_pos, 24), i,
                                            file_offset, file_size, FALSE),
                                  package, like)
                 ELSE package,
                 like)

\* _parse_file_table: the first entry size under which the table fits and
\* holds a valid entry decides; the other sizes add nothing
ParseFileTable(d, offset, count, package, like) ==
    LET good == {k \in 1..Len(TableEntrySizes) :
                    /\ offset + count * TableEntrySizes[k] <= Len(d)
                    /\ \E i \in 0..(count - 1) :
                          EntryInside(d,
                              U32LE(d, offset + i * TableEntrySizes[k] + 24),
                              U32LE(d, offset + i * TableEntrySizes[k] + 28))}
    IN  IF good = {} THEN package
        ELSE TableEntriesFrom(d, offset, count, TableEntrySizes[SetMin(good)],
                              0, package, like)

\* str.strip('\x00')
StripNul(text) ==
    LET keep == {k \in 1..Len(text) : text[k] # 0}
    IN  IF keep = {} THEN <<>>
        ELSE SubSeq(text, SetMin(keep), CHOOSE k \in keep : \A j \in keep : j <= k)

\* _parse_korg_generic
ParseKorgGeneric(d, package, like) ==
    LET with_model == [package EXCEPT !.model = StripNul(AsciiIgnore(Slice(d, 4, 8)))]
        hits == {k \in 1..Len(CountOffsets) :
                    /\ CountOffsets[k] + 4 <= Len(d)
                    /\ 0 < U32LE(d, CountOffsets[k])
                    /\ U32LE(d, CountOffsets[k]) < MaxFileCount}
    IN  IF hits # {}
        THEN LET offset == CountOffsets[SetMin(hits)]
             IN  ParseFileTable(d, offset + 4, U32LE(d, offset), with_model, like)
        ELSE ScanForEmbeddedFiles(d, with_model, like)

\* the loop of _parse_set_indexed over the entries, from entry i on.  For an
\* entry flagged as compressed zlib.decompress raises on data that is no zlib
\* stream, as with every file of the model, and the entry keeps its data
RECURSIVE IndexEntriesFrom(_, _, _, _, _, _)
IndexEntriesFrom(d, pos, file_count, i, package, like) ==
    IF i >= file_count \/ pos + IndexEntrySize > Len(d) THEN package
    ELSE LET file_offset == U32LE(d, pos + 32)
             file_size == U32LE(d, pos + 36)
             flags == U32LE(d, pos + 40)
         IN  IndexEntriesFrom(d, pos + IndexEntrySize, file_count, i + 1,
                 IF EntryInside(d, file_offset, file_size)
                 THEN AddEmbedded(EntryFile(d, EntryName(d, pos, 32), i,
                                            file_offset, file_size,
                                            flags % 2 = 1),
                                  package, like)
                 ELSE package,
                 like)

\* _parse_set_indexed; with 16 bytes and more the header reads cannot fail
ParseSetIndexed(d, package, like) ==
    LET with_version == [package EXCEPT !.version = Decimal(U32LE(d, 4))]
        file_count == U32LE(d, 8)
    IN  IF file_count > MaxFileCount
        THEN ScanForEmbeddedFiles(d, with_version, like)
        ELSE IndexEntriesFrom(d, 12, file_count, 0, with_version, like)

\* _parse_korg_package
ParseKorgPackage(d, package, like) ==
    IF Slice(d, 0, 4) = KORG THEN ParseKorgGeneric(d, package, like)
    ELSE ParseSetIndexed(d, package, like)

\* _parse_unknown_package
ParseUnknownPackage(d, package, like) ==
    LET file_type == IdentifyFileType(d)
    IN  IF Contains(file_type, TxtSampleWord) \/ Contains(file_type, TxtWAV)
        THEN [package EXCEPT !.samples = @ \o KSFParse(d, package.name, like)]
        ELSE IF Contains(file_type, TxtPCG)
        THEN [package EXCEPT !.programs = @ \o PCGParse(d, package.name)]
        ELSE LET Fallback(scanned) ==
                     IF scanned.embedded_files = <<>> /\ scanned.samples = <<>>
                     THEN [scanned EXCEPT !.samples =
                              @ \o KSFParse(d, package.name, like)]
                     ELSE scanned
             IN  Fallback(ScanForEmbeddedFiles(d, package, like))

\* the size of the end-of-central-directory record
ZipEndRecordSize == 22

\* _parse_zip_package: zipfile raises BadZipFile for a buffer that holds no
\* complete end-of-central-directory record, and the buffer goes to
\* _parse_unknown_package; an archive whose record declares no member has
\* an empty infolist() and adds nothing.  Archives with members are not
\* among the buffers of the model
ParseZipPackage(d, package, like) ==
    IF RFind(d, ZipEndRecord) < 0 \/ RFind(d, ZipEndRecord) + ZipEndRecordSize > Len(d)
    THEN ParseUnknownPackage(d, package, like)
    ELSE package

\* _link_samples over the multisamples of the package
LinkPackage(package) ==
    [package EXCEPT !.multisamples =
        [k \in 1..Len(package.multisamples) |->
            [package.multisamples[k] EXCEPT !.samples =
                LinkSamples(package.multisamples[k].zones,
                            package.multisamples[k].samples, package.samples)]]]

\* SetParser.parse: <<>> for None, <<package>> otherwise
SetParse(d, name, like) ==
    IF Len(d) < MinSetLen THEN <<>>
    ELSE LET package == SetPackage(name, <<>>, <<d>>)
             header == Slice(d, 0, 4)
         IN  <<LinkPackage(
                   IF header = ZipLocalHeader THEN ParseZipPackage(d, package, like)
                   ELSE IF header \in {KORG, SETi, SET1}
                   THEN ParseKorgPackage(d, package, like)
                   ELSE ParseUnknownPackage(d, package, like))>>

(***************************************************************************)
(* FolderSetParser and SetParser.parse_file                                *)
(*                                                                         *)
(* A path is missing, a file with its bytes, or a directory with the       *)
(* entries of its subfolders, each a file with a name and its bytes.       *)
(***************************************************************************)
\* FOLDERS, in the order parse_folder goes through them
FOLDERS == <<"GLOBAL", "MULTISMP", "PAD", "PCM", "PERFORM", "SONGBOOK", "SOUND", "STYLE">>

\* the folder names as text
FolderText ==
    [GLOBAL |-> <<71, 76, 79, 66, 65, 76>>, MULTISMP |-> <<77, 85, 76, 84, 73, 83, 77, 80>>, PAD |-> <<80, 65, 68>>,
     PCM |-> <<80, 67, 77>>, PERFORM |-> <<80, 69, 82, 70, 79, 82, 77>>, SONGBOOK |-> <<83, 79, 78, 71, 66, 79, 79, 75>>,
     SOUND |-> <<83, 79, 85, 78, 68>>, STYLE |-> <<83, 84, 89, 76, 69>>]

TxtDotSET == <<46, 83, 69, 84>>

TxtPaSeries == <<80, 97, 45, 115, 101, 114, 105, 101, 115>>

TxtDotPCG == <<46, 80, 67, 71>>

TxtDotKMP == <<46, 75, 77, 80>>

TxtDotSTY == <<46, 83, 84, 89>>

TxtPcmContainer == <<80, 67, 77, 32, 65, 117, 100, 105, 111, 32, 67, 111, 110, 116, 97, 105, 110, 101, 114>>

TxtProgramCollection == <<80, 114, 111, 103, 114, 97, 109, 32, 67, 111, 108, 108, 101, 99, 116, 105, 111, 110>>

TxtMultisampleMap == <<77, 117, 108, 116, 105, 115, 97, 109, 112, 108, 101, 32, 77, 97, 112>>

TxtStyleRhythm == <<83, 116, 121, 108, 101, 47, 82, 104, 121, 116, 104, 109>>

DefaultTempo == 120

\* Style
Style(nm) == [name |-> nm, tempo |-> DefaultTempo]

\* sorted(folder.glob('*' + ext)): the entries whose name ends with ext; the
\* entries of a subfolder are listed in the order of their names
Glob(entries, ext) == SelectSeq(entries, LAMBDA f : EndsWith(f.name, ext))

\* the loops of _process_pcm_folder, _process_sound_folder,
\* _process_multismp_folder and _process_style_folder from file k on
RECURSIVE ProcessFiles(_, _, _, _)
ProcessFiles(folder_type, files, k, package) ==
    IF k > Len(files) THEN package
    ELSE LET f == files[k]
             listed(ft) ==
                 [package EXCEPT !.embedded_files =
                     Append(@, EmbeddedFile(f.name, ft, 0, Len(f.data), FALSE,
                                            <<f.data>>))]
         IN  ProcessFiles(folder_type, files, k + 1,
                 CASE folder_type = "PCM" ->
                          [listed(TxtPcmContainer) EXCEPT !.samples =
                              @ \o PCMParse(f.data, f.name)]
                   [] folder_type = "SOUND" ->
                          [listed(TxtProgramCollection) EXCEPT !.programs =
                              @ \o PCGParse(f.data, f.name)]
                   [] folder_type = "MULTISMP" ->
                          [listed(TxtMultisampleMap) EXCEPT !.multisamples =
                              @ \o KMPParse(f.data, f.name)]
                   [] folder_type = "STYLE" ->
                          [listed(TxtStyleRhythm) EXCEPT !.styles =
                              Append(@, Style(Stem(f.name)))])

\* _catalog_folder from entry k on: the entry is listed without its data
RECURSIVE CatalogFolder(_, _, _, _)
CatalogFolder(folder_type, entries, k, package) ==
    IF k > Len(entries) THEN package
    ELSE CatalogFolder(folder_type, entries, k + 1,
             [package EXCEPT !.embedded_files =
                 Append(@, EmbeddedFile(
                     FolderText[folder_type] \o <<47>> \o entries[k].name,
                     FolderText[folder_type], 0, Len(entries[k].data), FALSE,
                     <<>>))])

\* _process_subfolder
ProcessSubfolder(entries, folder_type, package) ==
    CASE folder_type = "PCM" ->
             ProcessFiles(folder_type, Glob(entries, TxtDotPCM), 1, package)
      [] folder_type = "SOUND" ->
             ProcessFiles(folder_type, Glob(entries, TxtDotPCG), 1, package)
      [] folder_type = "MULTISMP" ->
             ProcessFiles(folder_type, Glob(entries, TxtDotKMP), 1, package)
      [] folder_type = "STYLE" ->
             ProcessFiles(folder_type, Glob(entries, TxtDotSTY), 1, package)
      [] OTHER -> CatalogFolder(folder_type, entries, 1, package)

\* the loop of parse_folder over FOLDERS from folder k on
RECURSIVE ProcessFolders(_, _, _)
ProcessFolders(path, k, package) ==
    IF k > Len(FOLDERS) THEN package
    ELSE ProcessFolders(path, k + 1,
             IF FOLDERS[k] \in DOMAIN path.subfolders
             THEN ProcessSubfolder(path.subfolders[FOLDERS[k]], FOLDERS[k], package)
             ELSE package)

\* FolderSetParser.parse_folder: <<>> for None
ParseFolder(path) ==
    IF path.kind # "directory" THEN <<>>
    ELSE <<ProcessFolders(path, 1,
               SetPackage(RemoveAll(path.name, TxtDotSET), TxtPaSeries, <<>>))>>

\* SetParser.parse_file: the package, None, or the exception raised
ParseFile(path, like) ==
    IF path.kind = "missing"
    THEN [raised |-> "FileNotFoundError", value |-> <<>>]
    ELSE IF path.kind = "directory"
    THEN [raised |-> "", value |-> ParseFolder(path)]
    ELSE LET Named(package) ==
                 IF package = <<>> THEN <<>>
                 ELSE <<[package[1] EXCEPT !.name = Stem(path.name)]>>
         IN  [raised |-> "",
              value |-> Named(SetParse(path.data, Stem(path.name), like))]

(***************************************************************************)
(* The packages and paths the dispatcher is given                          *)
(***************************************************************************)
MaxFiles == 2

\* struct.pack('<I', w)
LE32(w) == <<LEByte(w, 0), LEByte(w, 1), LEByte(w, 2), LEByte(w, 3)>>

\* text, null-padded to n bytes
NullPadded(text, n) == text \o Zeros(n - Len(text))

\* a sample file with a KSF1 header, 60 bytes
FileKsf ==
    Ksf1Buffer(60, [sig |-> KSF1, sample_rate |-> 44100, bit_depth |-> 16,
                    channels |-> 1, num_samples |-> 10, loop_end |-> 5,
                    loop_mode |-> 1])

\* a RIFF/WAVE file, 60 bytes
FileWav ==
    RiffBuffer(60, [form |-> WAVE, fmt_size |-> 16, channels |-> 1,
                    bit_depth |-> 16, tag |-> TagData, data_size |-> 8])

\* a multisample file of 66 bytes: one full-range zone, sample index 0
FileKmp ==
    [KmpBuffer(66, [sig |-> KMP1, title |-> <<80, 110, 111>>, base |-> 32, count |-> 1,
                    period |-> 16, fill |-> 0],
               [keys |-> <<0, 127>>, root_key |-> 60, vels |-> <<0, 127>>])
        EXCEPT ![41] = 0]

\* a program bank of 96 bytes: 'PCG1', a count of 2 and two names
FilePcg ==
    Concat(<<PCG1, Zeros(4), <<2, 0>>, Zeros(6), NullPadded(<<80, 105, 97, 110, 111, 32, 49>>, 16),
             NullPadded(<<83, 116, 114, 105, 110, 103, 115>>, 16), Zeros(48)>>)

\* a program bank of 172 bytes in the chunk format: a 'PRG1' chunk with one
\* 128-byte entry (name, category 5, bank 1) and an empty 'CMB1' chunk
FilePcgKorg ==
    Concat(<<KORG, <<80, 67, 71, 32>>, <<80, 82, 71, 49>>, LE32(132), <<1, 0, 0, 0>>,
             NullPadded(<<71, 114, 97, 110, 100>>, 24), <<5, 1>>, Zeros(102),
             <<67, 77, 66, 49>>, LE32(0), Zeros(16)>>)

\* a style file: the signature and 28 zero bytes
FileSty == STY1 \o Zeros(28)

\* 40 bytes that no decoder knows
FileRaw == [i \in 1..40 |-> 1 + (i % 7)]

\* the files a package may hold, each with the name its table entry gives it
FilePool ==
    {[name |-> <<97, 46, 107, 115, 102>>, data |-> FileKsf],
     [name |-> <<98, 46, 87, 65, 86>>, data |-> FileWav],
     [name |-> <<99, 46, 107, 109, 112>>, data |-> FileKmp],
     [name |-> <<100, 46, 112, 99, 103>>, data |-> FilePcg],
     [name |-> <<107, 46, 112, 99, 103>>, data |-> FilePcgKorg],
     [name |-> <<>>, data |-> FileKsf],
     [name |-> <<101, 46, 98, 105, 110>>, data |-> FileSty],
     [name |-> <<114, 97, 119>>, data |-> FileRaw]}

FileLists == UNION {[1..n -> FilePool] : n \in 0..MaxFiles}

\* the bytes of the files before file k
RECURSIVE SizeBefore(_, _)
SizeBefore(files, k) ==
    IF k <= 1 THEN 0 ELSE SizeBefore(files, k - 1) + Len(files[k - 1].data)

\* the bytes of the files, one after the other
FileData(files) == Concat([k \in 1..Len(files) |-> files[k].data])

\* a KORG container: the model, a file count at count_at, a table of
\* entry_size-byte entries (name, offset, size) and the files
KorgContainer(count_at, entry_size, files) ==
    LET data_start == count_at + 4 + Len(files) * entry_size
    IN  Concat(<<KORG, <<80, 97, 53, 48>>, Zeros(count_at - 8), LE32(Len(files)),
                 Concat([k \in 1..Len(files) |->
                            Concat(<<NullPadded(files[k].name, 24),
                                     LE32(data_start + SizeBefore(files, k)),
                                     LE32(Len(files[k].data)),
                                     Zeros(entry_size - 32)>>)]),
                 FileData(files)>>)

\* a SETi/SET1 container: version 2, a file count, 64-byte entries (name,
\* offset, size, flags) and the files
IndexContainer(sig, flags, files) ==
    LET data_start == 12 + Len(files) * IndexEntrySize
    IN  Concat(<<sig, LE32(2), LE32(Len(files)),
                 Concat([k \in 1..Len(files) |->
                            Concat(<<NullPadded(files[k].name, 32),
                                     LE32(data_start + SizeBefore(files, k)),
                                     LE32(Len(files[k].data)),
                                     LE32(flags), Zeros(20)>>)]),
                 FileData(files)>>)

\* a container without a table: 16 bytes of header (the signature, and a
\* file count of 1001 in an indexed one), then the files
PlainContainer(sig, files) ==
    Concat(<<sig, Zeros(4), IF sig = SET1 THEN LE32(1001) ELSE Zeros(4),
             Zeros(4), FileData(files)>>)

\* a buffer that begins as a ZIP archive: the files, and an end record that
\* declares no member, is cut short, or is missing
ZipContainer(files, end_record) ==
    Concat(<<ZipLocalHeader, Zeros(12), FileData(files), end_record>>)

ZipEndRecords == {ZipEndRecord \o Zeros(18), ZipEndRecord \o Zeros(10), <<>>}

\* a buffer too short to be a package
ShortBuffer == KORG \o Zeros(11)

\* the signature of a buffer no decoder knows
TxtXSET == <<88, 83, 69, 84>>

SetBuffers ==
    {ShortBuffer}
    \cup {KorgContainer(c, s, files) :
             c \in {12, 16}, s \in {32, 48}, files \in FileLists}
    \cup {IndexContainer(sig, flags, files) :
             sig \in {SETi, SET1}, flags \in {0, 1}, files \in FileLists}
    \cup {PlainContainer(sig, files) :
             sig \in {KORG, SET1, TxtXSET, KSF1, PCG1}, files \in FileLists}
    \cup {ZipContainer(files, end_record) :
             files \in FileLists, end_record \in ZipEndRecords}

\* the entries a subfolder may hold
FolderEntries ==
    [GLOBAL |-> <<[name |-> <<71, 76, 79, 66, 65, 76, 46, 71, 66, 76>>, data |-> Zeros(8)]>>,
     MULTISMP |-> <<[name |-> <<80, 78, 79, 46, 75, 77, 80>>, data |-> FileKmp],
                    [name |-> <<114, 101, 97, 100, 109, 101, 46, 116, 120, 116>>, data |-> Zeros(8)]>>,
     PCM |-> <<[name |-> <<82, 65, 77, 48, 49, 46, 80, 67, 77>>,
                data |-> FooterBuffer(<<256, 592>>, 672,
                                      [hdr |-> "korf", fname |-> XPCM,
                                       rate |-> 48000, kend |-> TRUE])],
               [name |-> <<82, 65, 77, 48, 50, 46, 80, 67, 77>>, data |-> Zeros(8)]>>,
     SOUND |-> <<[name |-> <<85, 83, 69, 82, 48, 49, 46, 80, 67, 71>>, data |-> FilePcg]>>,
     STYLE |-> <<[name |-> <<85, 83, 69, 82, 48, 49, 46, 83, 84, 89>>, data |-> FileSty]>>]

\* a path that does not exist
MissingPath == [kind |-> "missing", name |-> <<110, 111, 110, 101, 46, 115, 101, 116>>, data |-> <<>>, subfolders |-> EmptyDict]

\* a file with the bytes d
FilePath(d) == [kind |-> "file", name |-> <<100, 101, 109, 111, 46, 115, 101, 116>>, data |-> d, subfolders |-> EmptyDict]

\* a directory holding the subfolders present, each with its entries or empty
FolderPath(present, filled) == [kind |-> "directory", name |-> <<68, 101, 109, 111, 46, 83, 69, 84>>, data |-> <<>>, subfolders |-> [f \in present |-> IF f \in filled THEN FolderEntries[f] ELSE <<>>]]

SetPaths ==
    {MissingPath}
    \cup {FilePath(d) : d \in SetBuffers}
    \cup {FolderPath(present, filled) :
             present \in SUBSET DOMAIN FolderEntries,
             filled \in {DOMAIN FolderEntries, {"PCM"}, {}}}

(***************************************************************************)
(* The dispatcher as a state machine                                       *)
(***************************************************************************)
SetInit ==
    /\ set_path \in SetPaths
    /\ set_like \in BOOLEAN
    /\ set_op = ""
    /\ set_result = <<>>
    /\ set_raised = ""
    /\ set_pc = "start"

SetIdle ==
    /\ set_path = <<>>
    /\ set_like = FALSE
    /\ set_op = ""
    /\ set_result = <<>>
    /\ set_raised = ""
    /\ set_pc = "idle"

\* parse_set_data(data): SetParser.parse on the bytes, under the default name
ParseData ==
    /\ set_pc = "start"
    /\ set_path.kind = "file"
    /\ set_op' = "parse"
    /\ set_result' = SetParse(set_path.data, TxtUnknown, set_like)
    /\ set_raised' = ""
    /\ set_pc' = "done"
    /\ UNCHANGED <<set_path, set_like>>

\* parse_set(filepath): SetParser.parse_file on the path
ParseFileCall ==
    /\ set_pc = "start"
    /\ set_op' = "parse_file"
    /\ \E outcome \in {ParseFile(set_path, set_like)} :
          /\ set_result' = outcome.value
          /\ set_raised' = outcome.raised
    /\ set_pc' = "done"
    /\ UNCHANGED <<set_path, set_like>>

\* parse_folder_set(folder_path): FolderSetParser.parse_folder on the path
ParseFolderCall ==
    /\ set_pc = "start"
    /\ set_op' = "parse_folder"
    /\ set_result' = ParseFolder(set_path)
    /\ set_raised' = ""
    /\ set_pc' = "done"
    /\ UNCHANGED <<set_path, set_like>>

(***************************************************************************)
(* ProgramParser: the name filter                                          *)
(***************************************************************************)
\* the characters _is_valid_name counts as special: @#$%^&*(){}[]|\<>~`
NameSpecialChars ==
    {64, 35, 36, 37, 94, 38, 42, 40, 41, 123, 125, 91, 93, 124, 92, 60, 62,
     126, 96}

\* ProgramParser._is_valid_name
IsValidName(name) ==
    /\ ~(Len(name) < 3)
    /\ ~(CountIn(name, NameSpecialChars) > Len(name) \div 3)
    /\ \E k \in 1..Len(name) : name[k] \in AlphaChars

(***************************************************************************)
(* The banks PCGParser.parse is given                                      *)
(***************************************************************************)
MaxBankEntries == 2

\* "Grand"
NameGrand == <<71, 114, 97, 110, 100>>

\* "ab"
NameAb == <<97, 98>>

\* "1234"
Name1234 == <<49, 50, 51, 52>>

\* "a@#$"
NameASymbols == <<97, 64, 35, 36>>

\* "Piano 1"
NamePiano1 == <<80, 105, 97, 110, 111, 32, 49>>

\* the names a program entry may carry; <<>> is an entry that starts with 0
EntryNames == {NameGrand, NameAb, Name1234, NameASymbols, <<>>}

\* the ASCII runs a bank without chunks may hold
RunNames == {NamePiano1, NameAb, Name1234, NameASymbols}

\* a 128-byte program entry: the name null-padded to 24 bytes, category 5,
\* bank 1
BankEntry(nm) == Concat(<<NullPadded(nm, 24), <<5, 1>>, Zeros(102)>>)

\* a bank in the chunk format: 'KORG', four bytes 1..4, one program chunk
\* of Len(names) entries and 16 zero bytes
ChunkBank(chunk_id, names) ==
    Concat(<<KORG, <<1, 2, 3, 4>>, chunk_id, LE32(4 + 128 * Len(names)),
             <<Len(names), 0, 0, 0>>,
             Concat([k \in 1..Len(names) |-> BankEntry(names[k])]), Zeros(16)>>)

\* a bank without chunks: a four-byte header, a count at 8, the names as
\* null-padded 16-byte runs from 16 on, and 48 zero bytes
RunBank(header, count, names) ==
    Concat(<<header, Zeros(4), <<count, 0>>, Zeros(6),
             Concat([k \in 1..Len(names) |-> NullPadded(names[k], 16)]),
             Zeros(48)>>)

PcgInit ==
    /\ \/ \E chunk_id \in {<<80, 82, 71, 49>>, <<80, 82, 79, 71>>},
             n \in 1..MaxBankEntries :
            \E names \in [1..n -> EntryNames] :
                pcg_data = ChunkBank(chunk_id, names)
       \/ \E header \in {KORG, PCG1, <<1, 2, 3, 4>>}, count \in {0, 1},
             n \in 1..MaxBankEntries :
            \E names \in [1..n -> RunNames] :
                pcg_data = RunBank(header, count, names)
    /\ pcg_result = <<>>
    /\ pcg_pc = "start"

PcgIdle ==
    /\ pcg_data = <<>>
    /\ pcg_result = <<>>
    /\ pcg_pc = "idle"

\* parse_pcg(data): PCGParser.parse with the default name
PcgParse ==
    /\ pcg_pc = "start"
    /\ pcg_result' = PCGParse(pcg_data, TxtUnknown)
    /\ pcg_pc' = "done"
    /\ UNCHANGED pcg_data

(***************************************************************************)
(* The scan loops, one iteration at a time                                 *)
(***************************************************************************)
MaxBody == 48

\* the longest run the sample-name scan reads
NameRunLimit == 20

\* pos after an iteration that leaves the cursor at a program chunk whose
\* declared size is 0 or runs past the end of the buffer
ChunkCursorStalled(d, pos) ==
    LET chunk_id == Slice(d, pos, pos + 4)
        chunk_size == U32LE(d, pos + 4)
    IN  IF chunk_id \in ProgramChunkIds
        THEN IF chunk_size > 0 /\ pos + 8 + chunk_size <= Len(d)
             THEN pos + 8 + chunk_size
             ELSE pos
        ELSE IF chunk_id \in CombinationChunkIds THEN pos + 8 + chunk_size
        ELSE IF chunk_id \in GlobalChunkIds THEN pos + 8 + chunk_size
        ELSE pos + 1

\* pos after one iteration of the while loop of _parse_korg_format
ChunkCursor(d, pos) ==
    LET chunk_id == Slice(d, pos, pos + 4)
        chunk_size == U32LE(d, pos + 4)
    IN  IF chunk_id \in ProgramChunkIds
        THEN IF chunk_size > 0 /\ pos + 8 + chunk_size <= Len(d)
             THEN pos + 8 + chunk_size
             ELSE pos + 1
        ELSE IF chunk_id \in CombinationChunkIds THEN pos + 8 + chunk_size
        ELSE IF chunk_id \in GlobalChunkIds THEN pos + 8 + chunk_size
        ELSE pos + 1

\* the programs one iteration of the while loop of _parse_korg_format adds
ChunkPrograms(d, name, pos) ==
    LET chunk_id == Slice(d, pos, pos + 4)
        chunk_size == U32LE(d, pos + 4)
    IN  IF /\ chunk_id \in ProgramChunkIds
           /\ chunk_size > 0
           /\ pos + 8 + chunk_size <= Len(d)
        THEN ParseProgramChunk(Slice(d, pos + 8, pos + 8 + chunk_size), name)
        ELSE <<>>

\* end after the inner while loop of _scan_for_programs, begun at end = pos
RunEnd(d, pos) ==
    SetMin({e \in pos..(pos + MaxRunLen) :
               \/ ~(e < Len(d) /\ e - pos < MaxRunLen)
               \/ ~Printable(At(d, e))})

\* pos after one iteration of the while loop of _scan_for_programs
RunCursor(d, pos) ==
    IF Printable(At(d, pos)) THEN RunEnd(d, pos) ELSE pos + 1

\* the iteration of _scan_for_programs at pos appends a program
RunAccepted(d, pos) ==
    /\ Printable(At(d, pos))
    /\ RunEnd(d, pos) - pos >= MinRunLen
    /\ LET name == StripWhitespace(Slice(d, pos, RunEnd(d, pos)))
       IN  Len(name) >= 3 /\ \E k \in 1..Len(name) : name[k] \in AlphaChars

\* end after the inner while loop of _parse_names_format_v2
NameEnd(d, pos) ==
    LET max_pos == Min(Len(d), NameScanLimit)
    IN  SetMin({e \in pos..(pos + NameRunLimit) :
                   \/ ~(e < max_pos /\ e - pos < NameRunLimit)
                   \/ ~Printable(At(d, e))})

\* pos after one iteration of the while loop of _parse_names_format_v2
NameCursor(d, pos) ==
    IF Printable(At(d, pos)) THEN NameEnd(d, pos) + 1 ELSE pos + 1

\* the condition of the while loop
LoopCondition(kind, d, pos, prog_count) ==
    CASE kind = "chunks" -> pos < Len(d) - 8
      [] kind = "runs" -> pos < Len(d) - MaxRunLen /\ prog_count < DefaultMaxPrograms
      [] kind = "names" -> pos < Min(Len(d), NameScanLimit)

\* where each loop sets out
LoopStart(kind) ==
    CASE kind = "chunks" -> 4
      [] kind = "runs" -> 0
      [] kind = "names" -> NameTableStart

ChunkXXXX == <<88, 88, 88, 88>>

\* what follows the first chunk header: zero bytes, one long run of letters,
\* names between zero bytes, a second program chunk of size 0 among bytes
\* that are no text, a run that reaches the end of the buffer, or a second
\* program chunk that fills the buffer and holds one name
ScanBodies ==
    {Zeros(MaxBody),
     [i \in 1..MaxBody |-> 65],
     Concat(<<NamePiano1, Zeros(3), NameGrand, <<1, 2>>, NameAb, Zeros(MaxBody - 19)>>),
     Concat(<<Zeros(4), <<80, 82, 71, 49>>, LE32(0), <<200, 201>>,
              <<67, 77, 66, 49>>, LE32(4), Zeros(MaxBody - 22)>>),
     Concat(<<Zeros(MaxBody - 6), Name1234, <<65, 66>>>>),
     Concat(<<<<80, 82, 71, 49>>, LE32(MaxBody - 8), <<255, 255, 255, 255>>,
              NameGrand, Zeros(MaxBody - 17)>>)}

\* the sizes the first chunk declares: nothing, a few bytes, more than the
\* buffer holds, and far more
ScanSizes == {0, 8, 1000, 16777216}

ScanBuffers ==
    {Concat(<<header, chunk_id, LE32(size), body>>) :
        header \in {KORG, ChunkXXXX},
        chunk_id \in {<<80, 82, 71, 49>>, <<67, 77, 66, 49>>, <<71, 76, 66, 49>>, ChunkXXXX},
        size \in ScanSizes, body \in ScanBodies}

\* PCGParser.parse begins the chunk scan on a buffer with the KORG header
\* and the ASCII-run scan on a buffer with a header it does not know
ScanInit ==
    /\ scan_data \in ScanBuffers
    /\ scan_kind \in {"chunks", "runs", "names"}
    /\ scan_kind = "chunks" => Slice(scan_data, 0, 4) = KORG
    /\ scan_kind = "runs" => Slice(scan_data, 0, 4) # KORG
    /\ scan_pos = LoopStart(scan_kind)
    /\ scan_count = 0
    /\ scan_pc = "loop"

ScanIdle ==
    /\ scan_data = <<>>
    /\ scan_kind = ""
    /\ scan_pos = 0
    /\ scan_count = 0
    /\ scan_pc = "idle"

\* the cursor's part of an iteration of the while loop of _parse_korg_format
ChunkMove ==
    /\ scan_pc = "loop"
    /\ scan_kind = "chunks"
    /\ LoopCondition(scan_kind, scan_data, scan_pos, scan_count)
    /\ scan_pos' = ChunkCursor(scan_data, scan_pos)
    /\ UNCHANGED <<scan_kind, scan_pc>>

\* one iteration of the while loop of _parse_korg_format
ChunkIteration ==
    /\ ChunkMove
    /\ scan_count' = scan_count + Len(ChunkPrograms(scan_data, TxtUnknown, scan_pos))
    /\ UNCHANGED scan_data

\* the cursor's part of an iteration of the while loop of _scan_for_programs
RunMove ==
    /\ scan_pc = "loop"
    /\ scan_kind = "runs"
    /\ LoopCondition(scan_kind, scan_data, scan_pos, scan_count)
    /\ scan_pos' = RunCursor(scan_data, scan_pos)
    /\ UNCHANGED <<scan_kind, scan_pc>>

\* one iteration of the while loop of _scan_for_programs
RunIteration ==
    /\ RunMove
    /\ scan_count' = IF RunAccepted(scan_data, scan_pos)
                     THEN scan_count + 1 ELSE scan_count
    /\ UNCHANGED scan_data

\* the cursor's part of an iteration of the while loop of
\* _parse_names_format_v2
NameMove ==
    /\ scan_pc = "loop"
    /\ scan_kind = "names"
    /\ LoopCondition(scan_kind, scan_data, scan_pos, scan_count)
    /\ scan_pos' = NameCursor(scan_data, scan_pos)
    /\ UNCHANGED <<scan_kind, scan_pc>>

\* one iteration of the while loop of _parse_names_format_v2
NameIteration ==
    /\ NameMove
    /\ UNCHANGED <<scan_data, scan_count>>

\* the chunk loop is over and has found no program: _parse_korg_format goes
\* on with _scan_for_programs
ChunkFallback ==
    /\ scan_pc = "loop"
    /\ scan_kind = "chunks"
    /\ ~LoopCondition(scan_kind, scan_data, scan_pos, scan_count)
    /\ scan_count = 0
    /\ scan_kind' = "runs"
    /\ scan_pos' = LoopStart("runs")
    /\ UNCHANGED <<scan_data, scan_count, scan_pc>>

\* the loop is over and the call returns
LoopExit ==
    /\ scan_pc = "loop"
    /\ ~LoopCondition(scan_kind, scan_data, scan_pos, scan_count)
    /\ scan_kind = "chunks" => scan_count > 0
    /\ scan_pc' = "done"
    /\ UNCHANGED <<scan_data, scan_kind, scan_pos, scan_count>>

(***************************************************************************)
(* audio/player.py: AudioPlayer, its caller, its monitor threads and the   *)
(* mixer                                                                   *)
(***************************************************************************)
MaxPlays == 2

PlayCalls == 1..MaxPlays

ApInit ==
    /\ ap_state = "STOPPED"
    /\ ap_channel = "None"
    /\ ap_has_callback \in BOOLEAN
    /\ ap_pc = "idle"
    /\ ap_loop = FALSE
    /\ ap_calls = 0
    /\ ap_current = 0
    /\ ap_mon = [i \in PlayCalls |-> "none"]
    /\ mix_busy = FALSE
    /\ mix_paused = FALSE
    /\ mix_loops = FALSE
    /\ ap_ended = {}
    /\ ap_notified = [i \in PlayCalls |-> 0]

ApIdle ==
    /\ ap_state = "STOPPED"
    /\ ap_channel = "None"
    /\ ap_has_callback = FALSE
    /\ ap_pc = "off"
    /\ ap_loop = FALSE
    /\ ap_calls = 0
    /\ ap_current = 0
    /\ ap_mon = <<>>
    /\ mix_busy = FALSE
    /\ mix_paused = FALSE
    /\ mix_loops = FALSE
    /\ ap_ended = {}
    /\ ap_notified = <<>>

\* play_sample is called on an initialised player with a sample that has
\* data; loop is should_loop
PlaySampleCall(loop) ==
    /\ ap_pc = "idle"
    /\ ap_calls < MaxPlays
    /\ ap_calls' = ap_calls + 1
    /\ ap_loop' = loop
    /\ ap_pc' = "play_stop"
    /\ UNCHANGED <<ap_state, ap_channel, ap_has_callback, ap_current, ap_mon, mix_busy, mix_paused, mix_loops, ap_ended, ap_notified>>

PlaySample == \E loop \in BOOLEAN : PlaySampleCall(loop)

\* stop() is called
Stop ==
    /\ ap_pc = "idle"
    /\ ap_pc' = "stop"
    /\ UNCHANGED <<ap_state, ap_channel, ap_has_callback, ap_loop, ap_calls, ap_current, ap_mon, mix_busy, mix_paused, mix_loops, ap_ended, ap_notified>>

\* pygame.mixer.stop() in stop(), called directly or from play_sample
MixerStop ==
    /\ ap_pc \in {"play_stop", "stop"}
    /\ mix_busy' = FALSE
    /\ mix_paused' = FALSE
    /\ ap_pc' = IF ap_pc = "stop" THEN "stop_state" ELSE "play_stop_state"
    /\ UNCHANGED <<ap_state, ap_channel, ap_has_callback, ap_loop, ap_calls, ap_current, ap_mon, mix_loops, ap_ended, ap_notified>>

\* self.state = PlayerState.STOPPED in stop()
SetStopped ==
    /\ ap_pc \in {"play_stop_state", "stop_state"}
    /\ ap_state' = "STOPPED"
    /\ ap_pc' = IF ap_pc = "stop_state" THEN "idle" ELSE "play_sound"
    /\ UNCHANGED <<ap_channel, ap_has_callback, ap_loop, ap_calls, ap_current, ap_mon, mix_busy, mix_paused, mix_loops, ap_ended, ap_notified>>

\* self._current_channel = sound.play(loops=loops)
SoundPlay ==
    /\ ap_pc = "play_sound"
    /\ ap_channel' = "channel"
    /\ ap_current' = ap_calls
    /\ mix_busy' = TRUE
    /\ mix_paused' = FALSE
    /\ mix_loops' = ap_loop
    /\ ap_pc' = "play_state"
    /\ UNCHANGED <<ap_state, ap_has_callback, ap_loop, ap_calls, ap_mon, ap_ended, ap_notified>>

\* self.state = PlayerState.PLAYING in play_sample
SetPlaying ==
    /\ ap_pc = "play_state"
    /\ ap_state' = "PLAYING"
    /\ ap_pc' = "play_monitor"
    /\ UNCHANGED <<ap_channel, ap_has_callback, ap_loop, ap_calls, ap_current, ap_mon, mix_busy, mix_paused, mix_loops, ap_ended, ap_notified>>

\* if not should_loop: self._start_completion_monitor(); return True
StartMonitor ==
    /\ ap_pc = "play_monitor"
    /\ ap_mon' = IF ap_loop THEN ap_mon ELSE [ap_mon EXCEPT ![ap_calls] = "while"]
    /\ ap_pc' = "idle"
    /\ UNCHANGED <<ap_state, ap_channel, ap_has_callback, ap_loop, ap_calls, ap_current, mix_busy, mix_paused, mix_loops, ap_ended, ap_notified>>

\* pause() is called while the state is PLAYING; otherwise it does nothing
Pause ==
    /\ ap_pc = "idle"
    /\ ap_state = "PLAYING"
    /\ ap_pc' = "pause"
    /\ UNCHANGED <<ap_state, ap_channel, ap_has_callback, ap_loop, ap_calls, ap_current, ap_mon, mix_busy, mix_paused, mix_loops, ap_ended, ap_notified>>

\* pygame.mixer.pause()
MixerPause ==
    /\ ap_pc = "pause"
    /\ mix_paused' = TRUE
    /\ ap_pc' = "pause_state"
    /\ UNCHANGED <<ap_state, ap_channel, ap_has_callback, ap_loop, ap_calls, ap_current, ap_mon, mix_busy, mix_loops, ap_ended, ap_notified>>

\* self.state = PlayerState.PAUSED
SetPaused ==
    /\ ap_pc = "pause_state"
    /\ ap_state' = "PAUSED"
    /\ ap_pc' = "idle"
    /\ UNCHANGED <<ap_channel, ap_has_callback, ap_loop, ap_calls, ap_current, ap_mon, mix_busy, mix_paused, mix_loops, ap_ended, ap_notified>>

\* resume() is called while the state is PAUSED; otherwise it does nothing
Resume ==
    /\ ap_pc = "idle"
    /\ ap_state = "PAUSED"
    /\ ap_pc' = "resume"
    /\ UNCHANGED <<ap_state, ap_channel, ap_has_callback, ap_loop, ap_calls, ap_current, ap_mon, mix_busy, mix_paused, mix_loops, ap_ended, ap_notified>>

\* pygame.mixer.unpause()
MixerUnpause ==
    /\ ap_pc = "resume"
    /\ mix_paused' = FALSE
    /\ ap_pc' = "resume_state"
    /\ UNCHANGED <<ap_state, ap_channel, ap_has_callback, ap_loop, ap_calls, ap_current, ap_mon, mix_busy, mix_loops, ap_ended, ap_notified>>

\* self.state = PlayerState.PLAYING in resume()
SetResumed ==
    /\ ap_pc = "resume_state"
    /\ ap_state' = "PLAYING"
    /\ ap_pc' = "idle"
    /\ UNCHANGED <<ap_channel, ap_has_callback, ap_loop, ap_calls, ap_current, ap_mon, mix_busy, mix_paused, mix_loops, ap_ended, ap_notified>>

\* the mixer plays a sound that does not repeat to its end
SoundEnds ==
    /\ mix_busy
    /\ ~mix_paused
    /\ ~mix_loops
    /\ mix_busy' = FALSE
    /\ ap_ended' = ap_ended \cup {ap_current}
    /\ UNCHANGED <<ap_state, ap_channel, ap_has_callback, ap_pc, ap_loop, ap_calls, ap_current, ap_mon, mix_paused, mix_loops, ap_notified>>

\* monitor(): while self.state == PlayerState.PLAYING
MonitorWhile(i) ==
    /\ ap_mon[i] = "while"
    /\ ap_mon' = [ap_mon EXCEPT ![i] = IF ap_state = "PLAYING" THEN "busy" ELSE "exit"]
    /\ UNCHANGED <<ap_state, ap_channel, ap_has_callback, ap_pc, ap_loop, ap_calls, ap_current, mix_busy, mix_paused, mix_loops, ap_ended, ap_notified>>

\* monitor(): if self._current_channel is None or not
\* self._current_channel.get_busy(); otherwise time.sleep(0.1) and the
\* loop goes round.  A paused channel counts as busy
MonitorBusy(i) ==
    /\ ap_mon[i] = "busy"
    /\ ap_mon' = [ap_mon EXCEPT ![i] = IF ap_channel = "None" \/ ~mix_busy
                                       THEN "stopped" ELSE "while"]
    /\ UNCHANGED <<ap_state, ap_channel, ap_has_callback, ap_pc, ap_loop, ap_calls, ap_current, mix_busy, mix_paused, mix_loops, ap_ended, ap_notified>>

\* monitor(): self.state = PlayerState.STOPPED
MonitorStopped(i) ==
    /\ ap_mon[i] = "stopped"
    /\ ap_state' = "STOPPED"
    /\ ap_mon' = [ap_mon EXCEPT ![i] = "notify"]
    /\ UNCHANGED <<ap_channel, ap_has_callback, ap_pc, ap_loop, ap_calls, ap_current, mix_busy, mix_paused, mix_loops, ap_ended, ap_notified>>

\* monitor(): if self._on_playback_complete: self._on_playback_complete();
\* break
MonitorNotify(i) ==
    /\ ap_mon[i] = "notify"
    /\ ap_notified' = IF ap_has_callback
                      THEN [ap_notified EXCEPT ![ap_current] = @ + 1]
                      ELSE ap_notified
    /\ ap_mon' = [ap_mon EXCEPT ![i] = "exit"]
    /\ UNCHANGED <<ap_state, ap_channel, ap_has_callback, ap_pc, ap_loop, ap_calls, ap_current, mix_busy, mix_paused, mix_loops, ap_ended>>

\* a step of a monitor thread
MonitorStep ==
    \E i \in PlayCalls : MonitorWhile(i) \/ MonitorBusy(i) \/ MonitorStopped(i) \/ MonitorNotify(i)

\* a step inside a call that has begun
CallerStep ==
    MixerStop \/ SetStopped \/ SoundPlay \/ SetPlaying \/ StartMonitor \/ MixerPause \/ SetPaused \/ MixerUnpause \/ SetResumed

\* one play_sample call that does not loop, and pause() and resume() calls
\* made before its sound has played to the end
PlayOnce == ap_calls = 0 /\ PlaySampleCall(FALSE)

PauseInTime == ap_ended = {} /\ Pause

ResumeInTime == ap_ended = {} /\ Resume

(***************************************************************************)
(* Specifications                                                          *)
(***************************************************************************)
PcmNext == Parse /\ UNCHANGED <<ksfVars, sfVars, msVars, kmpVars, clsVars, lkVars, setVars, pcgVars, scanVars, apVars>>

KsfNext == KsfParse /\ UNCHANGED <<pcmVars, sfVars, msVars, kmpVars, clsVars, lkVars, setVars, pcgVars, scanVars, apVars>>

SfNext ==
    \/ AddSample /\ UNCHANGED <<pcmVars, ksfVars, msVars, kmpVars, clsVars, lkVars, setVars, pcgVars, scanVars, apVars>>
    \/ AddInstrument /\ UNCHANGED <<pcmVars, ksfVars, msVars, kmpVars, clsVars, lkVars, setVars, pcgVars, scanVars, apVars>>
    \/ AddPreset /\ UNCHANGED <<pcmVars, ksfVars, msVars, kmpVars, clsVars, lkVars, setVars, pcgVars, scanVars, apVars>>
    \/ SaveCall /\ UNCHANGED <<pcmVars, ksfVars, msVars, kmpVars, clsVars, lkVars, setVars, pcgVars, scanVars, apVars>>
    \/ ExportCall /\ UNCHANGED <<pcmVars, ksfVars, msVars, kmpVars, clsVars, lkVars, setVars, pcgVars, scanVars, apVars>>

MsNext ==
    \/ Link /\ UNCHANGED <<pcmVars, ksfVars, sfVars, kmpVars, clsVars, lkVars, setVars, pcgVars, scanVars, apVars>>
    \/ Lookup /\ UNCHANGED <<pcmVars, ksfVars, sfVars, kmpVars, clsVars, lkVars, setVars, pcgVars, scanVars, apVars>>

\* PCMParser.parse on one container
InitPCM == PcmInit /\ KsfIdle /\ SfIdle /\ MsIdle /\ KmpIdle /\ ClsIdle /\ LkIdle /\ SetIdle /\ PcgIdle /\ ScanIdle /\ ApIdle

SpecPCM == InitPCM /\ [][PcmNext]_vars

\* either decoder, on one input
InitDecoders ==
    /\ \/ PcmInit /\ KsfIdle
       \/ KsfInit /\ PcmIdle
    /\ SfIdle
    /\ MsIdle
    /\ KmpIdle
    /\ ClsIdle
    /\ LkIdle
    /\ SetIdle
    /\ PcgIdle
    /\ ScanIdle
    /\ ApIdle

NextDecoders == PcmNext \/ KsfNext

SpecDecoders == InitDecoders /\ [][NextDecoders]_vars

\* calls on one SF2Writer, or one call of export_samples_to_sf2
InitSF2 == SfInit /\ PcmIdle /\ KsfIdle /\ MsIdle /\ KmpIdle /\ ClsIdle /\ LkIdle /\ SetIdle /\ PcgIdle /\ ScanIdle /\ ApIdle

SpecSF2 == InitSF2 /\ [][SfNext]_vars

\* the linking pass on one multisample, then lookups
InitMS == MsInit /\ PcmIdle /\ KsfIdle /\ SfIdle /\ KmpIdle /\ ClsIdle /\ LkIdle /\ SetIdle /\ PcgIdle /\ ScanIdle /\ ApIdle

SpecMS == InitMS /\ [][MsNext]_vars

\* KMPParser.parse on one file
KmpNext == KmpParse /\ UNCHANGED <<pcmVars, ksfVars, sfVars, msVars, clsVars, lkVars, setVars, pcgVars, scanVars, apVars>>

InitKMP == KmpInit /\ PcmIdle /\ KsfIdle /\ SfIdle /\ MsIdle /\ ClsIdle /\ LkIdle /\ SetIdle /\ PcgIdle /\ ScanIdle /\ ApIdle

SpecKMP == InitKMP /\ [][KmpNext]_vars

\* the classifier: classify_sample on a name, or classify_all_samples on a list
ClsNext ==
    \/ ClassifyFirst /\ UNCHANGED <<pcmVars, ksfVars, sfVars, msVars, kmpVars, lkVars, setVars, pcgVars, scanVars, apVars>>
    \/ ClassifyAgain /\ UNCHANGED <<pcmVars, ksfVars, sfVars, msVars, kmpVars, lkVars, setVars, pcgVars, scanVars, apVars>>
    \/ ClassifyAll /\ UNCHANGED <<pcmVars, ksfVars, sfVars, msVars, kmpVars, lkVars, setVars, pcgVars, scanVars, apVars>>

InitCLS == ClsInit /\ PcmIdle /\ KsfIdle /\ SfIdle /\ MsIdle /\ KmpIdle /\ LkIdle /\ SetIdle /\ PcgIdle /\ ScanIdle /\ ApIdle

SpecCLS == InitCLS /\ [][ClsNext]_vars

\* link_all on one linker
LkNext == LinkAll /\ UNCHANGED <<pcmVars, ksfVars, sfVars, msVars, kmpVars, clsVars, setVars, pcgVars, scanVars, apVars>>

InitLK == LkInit /\ PcmIdle /\ KsfIdle /\ SfIdle /\ MsIdle /\ KmpIdle /\ ClsIdle /\ SetIdle /\ PcgIdle /\ ScanIdle /\ ApIdle

SpecLK == InitLK /\ [][LkNext]_vars

\* the dispatcher: one call of parse, parse_file or parse_folder
SetNext ==
    \/ ParseData /\ UNCHANGED <<pcmVars, ksfVars, sfVars, msVars, kmpVars, clsVars, lkVars, pcgVars, scanVars, apVars>>
    \/ ParseFileCall /\ UNCHANGED <<pcmVars, ksfVars, sfVars, msVars, kmpVars, clsVars, lkVars, pcgVars, scanVars, apVars>>
    \/ ParseFolderCall /\ UNCHANGED <<pcmVars, ksfVars, sfVars, msVars, kmpVars, clsVars, lkVars, pcgVars, scanVars, apVars>>

InitSET == SetInit /\ PcmIdle /\ KsfIdle /\ SfIdle /\ MsIdle /\ KmpIdle /\ ClsIdle /\ LkIdle /\ PcgIdle /\ ScanIdle /\ ApIdle

SpecSET == InitSET /\ [][SetNext]_vars

\* PCGParser.parse on one bank
PcgNext == PcgParse /\ UNCHANGED <<pcmVars, ksfVars, sfVars, msVars, kmpVars, clsVars, lkVars, setVars, scanVars, apVars>>

InitPCG == PcgInit /\ PcmIdle /\ KsfIdle /\ SfIdle /\ MsIdle /\ KmpIdle /\ ClsIdle /\ LkIdle /\ SetIdle /\ ScanIdle /\ ApIdle

SpecPCG == InitPCG /\ [][PcgNext]_vars

ScanNext ==
    \/ ChunkIteration /\ UNCHANGED <<pcmVars, ksfVars, sfVars, msVars, kmpVars, clsVars, lkVars, setVars, pcgVars, apVars>>
    \/ RunIteration /\ UNCHANGED <<pcmVars, ksfVars, sfVars, msVars, kmpVars, clsVars, lkVars, setVars, pcgVars, apVars>>
    \/ NameIteration /\ UNCHANGED <<pcmVars, ksfVars, sfVars, msVars, kmpVars, clsVars, lkVars, setVars, pcgVars, apVars>>
    \/ ChunkFallback /\ UNCHANGED <<pcmVars, ksfVars, sfVars, msVars, kmpVars, clsVars, lkVars, setVars, pcgVars, apVars>>
    \/ LoopExit /\ UNCHANGED <<pcmVars, ksfVars, sfVars, msVars, kmpVars, clsVars, lkVars, setVars, pcgVars, apVars>>

InitSCAN == ScanInit /\ PcmIdle /\ KsfIdle /\ SfIdle /\ MsIdle /\ KmpIdle /\ ClsIdle /\ LkIdle /\ SetIdle /\ PcgIdle /\ ApIdle

SpecSCAN == InitSCAN /\ [][ScanNext]_vars

\* the control flow of the loops: what a step does to the cursor, to the
\* loop that runs and to the position in the call
cursorVars == <<scan_pos, scan_kind, scan_pc>>

LoopControl == ChunkMove \/ RunMove \/ NameMove \/ ChunkFallback \/ LoopExit

\* the interpreter goes on running a loop it has begun: control that can
\* move on does move on
SpecSCANFair == InitSCAN /\ [][ScanNext]_vars /\ WF_cursorVars(LoopControl)

ApNext ==
    \/ PlaySample /\ UNCHANGED <<pcmVars, ksfVars, sfVars, msVars, kmpVars, clsVars, lkVars, setVars, pcgVars, scanVars>>
    \/ Stop /\ UNCHANGED <<pcmVars, ksfVars, sfVars, msVars, kmpVars, clsVars, lkVars, setVars, pcgVars, scanVars>>
    \/ Pause /\ UNCHANGED <<pcmVars, ksfVars, sfVars, msVars, kmpVars, clsVars, lkVars, setVars, pcgVars, scanVars>>
    \/ Resume /\ UNCHANGED <<pcmVars, ksfVars, sfVars, msVars, kmpVars, clsVars, lkVars, setVars, pcgVars, scanVars>>
    \/ CallerStep /\ UNCHANGED <<pcmVars, ksfVars, sfVars, msVars, kmpVars, clsVars, lkVars, setVars, pcgVars, scanVars>>
    \/ MonitorStep /\ UNCHANGED <<pcmVars, ksfVars, sfVars, msVars, kmpVars, clsVars, lkVars, setVars, pcgVars, scanVars>>
    \/ SoundEnds /\ UNCHANGED <<pcmVars, ksfVars, sfVars, msVars, kmpVars, clsVars, lkVars, setVars, pcgVars, scanVars>>

InitAP == ApInit /\ PcmIdle /\ KsfIdle /\ SfIdle /\ MsIdle /\ KmpIdle /\ ClsIdle /\ LkIdle /\ SetIdle /\ PcgIdle /\ ScanIdle

SpecAP == InitAP /\ [][ApNext]_vars

\* one play_sample call that does not loop, with pause() and resume()
ApPauseNext ==
    \/ PlayOnce /\ UNCHANGED <<pcmVars, ksfVars, sfVars, msVars, kmpVars, clsVars, lkVars, setVars, pcgVars, scanVars>>
    \/ PauseInTime /\ UNCHANGED <<pcmVars, ksfVars, sfVars, msVars, kmpVars, clsVars, lkVars, setVars, pcgVars, scanVars>>
    \/ ResumeInTime /\ UNCHANGED <<pcmVars, ksfVars, sfVars, msVars, kmpVars, clsVars, lkVars, setVars, pcgVars, scanVars>>
    \/ CallerStep /\ UNCHANGED <<pcmVars, ksfVars, sfVars, msVars, kmpVars, clsVars, lkVars, setVars, pcgVars, scanVars>>
    \/ MonitorStep /\ UNCHANGED <<pcmVars, ksfVars, sfVars, msVars, kmpVars, clsVars, lkVars, setVars, pcgVars, scanVars>>
    \/ SoundEnds /\ UNCHANGED <<pcmVars, ksfVars, sfVars, msVars, kmpVars, clsVars, lkVars, setVars, pcgVars, scanVars>>

\* a call that has begun runs on and a monitor thread that lives gets its
\* turn; nothing makes the caller call, and nothing makes the sound end
SpecAPPauseFair == InitAP /\ [][ApPauseNext]_vars /\ WF_apVars(CallerStep) /\ WF_apVars(MonitorStep)

(***************************************************************************)
(* Properties of PCMParser.parse                                           *)
(***************************************************************************)
KbegPos == RFind(data, KBEG)

KendPos == RFind(data, KEND)

\* both per-sample headers, at 0x100 and at 0x250, carry 0xBB80 in the rate field
HeadersCarry48000 ==
    /\ 592 + 22 <= Len(data)
    /\ U16BE(data, 256 + 20) = 48000
    /\ U16BE(data, 592 + 20) = 48000

\* exactly 2 samples, each at 48000 Hz with (block_size - 76) / 2 frames
TwoSamplesAt48000 ==
    /\ Len(samples) = 2
    /\ samples[1].sample_rate = 48000
    /\ samples[1].num_samples = (592 - 256 - SAMPLE_HEADER_SIZE) \div 2
    /\ samples[2].sample_rate = 48000
    /\ samples[2].num_samples = (KbegPos - 592 - SAMPLE_HEADER_SIZE) \div 2

\* the 32-bit values between the markers are exactly 0x100, 0x250
RawTableScenario ==
    /\ Len(data) >= MinPcmLen
    /\ KbegPos >= 0
    /\ KbegPos < KendPos
    /\ KendPos = KbegPos + 12
    /\ U32BE(data, KbegPos + 4) = 256
    /\ U32BE(data, KbegPos + 8) = 592
    /\ HeadersCarry48000

\* between the markers: one leading count/header value, then 0x100, 0x250; the
\* footer-begin marker lies more than 76 bytes after 0x250
CountedTableScenario ==
    /\ Len(data) >= MinPcmLen
    /\ KbegPos > 592 + SAMPLE_HEADER_SIZE
    /\ KbegPos < KendPos
    /\ KendPos = KbegPos + 16
    /\ U32BE(data, KbegPos + 8) = 256
    /\ U32BE(data, KbegPos + 12) = 592
    /\ HeadersCarry48000

RECURSIVE PayloadBytes(_)
PayloadBytes(ss) ==
    IF ss = <<>> THEN 0 ELSE Len(Head(ss).raw_data) + PayloadBytes(Tail(ss))

\* C2: on the footer path, for every content of the offset table, the payload
\* lengths of the returned samples plus 76 per returned sample do not exceed
\* the footer-begin position.
C2_OffsetTableParity ==
    pcm_pc \in {"footer", "empty"} =>
        PayloadBytes(samples) + SAMPLE_HEADER_SIZE * Len(samples) <= KbegPos

\* C3: every SampleInfo returned by PCMParser.parse has a non-empty name.
C3_NoSampleNameless ==
    \A k \in 1..Len(samples) : samples[k].name # <<>>

(***************************************************************************)
(* Properties of every decoder                                             *)
(***************************************************************************)
SampleInvariant(s) ==
    /\ s.num_samples * s.channels * s.bit_depth <= 8 * Len(s.raw_data)
    /\ s.loop_mode # NO_LOOP => s.loop_end <= s.num_samples

\* C4: every SampleInfo a decoder produces satisfies
\* num_samples * channels * (bit_depth / 8) <= len(raw_data), and
\* loop_end <= num_samples whenever loop_mode is not NO_LOOP.
C4_SampleInvariant ==
    /\ \A k \in 1..Len(samples) : SampleInvariant(samples[k])
    /\ \A k \in 1..Len(ksf_result) : SampleInvariant(ksf_result[k])

(***************************************************************************)
(* Properties of the bank SF2Writer builds                                 *)
(***************************************************************************)
\* the file holds the bank built from the writer as it is now
BankBuilt == sf_pc \in {"saved", "exported"} /\ sf_ok = "True"

Bank == sf_file[1]

\* the number of zone records that precede the zones of preset k in pbag
PresetBagStart(k) ==
    Len(Concat([j \in 1..(k - 1) |-> writer.presets[j].instruments]))

\* the number of zone records that precede the zones of instrument k in ibag
InstBagStart(k) ==
    Len(Concat([j \in 1..(k - 1) |-> writer.instruments[j].zones]))

\* C5: each preset header's bag index and the next header's (EOP for the last)
\* delimit exactly that preset's zone records in pbag, and the terminal
\* header's index is the count of the zone records; likewise inst, EOI, ibag.
C5_HeadersDelimitBags ==
    BankBuilt =>
        /\ \A k \in 1..(Len(writer.presets) + 1) : Bank.phdr[k].bag = PresetBagStart(k)
        /\ Bank.phdr[Len(writer.presets) + 1].bag = Len(Bank.pbag) - 1
        /\ \A k \in 1..(Len(writer.instruments) + 1) : Bank.inst[k].bag = InstBagStart(k)
        /\ Bank.inst[Len(writer.instruments) + 1].bag = Len(Bank.ibag) - 1

\* the generators a preset zone referring to instrument inst_id must own
PresetZoneOwns(inst_id) ==
    <<<<GenKeyRange, RangeAmount(0, 127)>>, <<GenInstrument, inst_id>>>>

\* the generators an instrument zone must own: key range, velocity range, the
\* custom generators, and the sample reference last
InstZoneOwns(zone) ==
    <<<<GenKeyRange, zone.key_range[1] + 256 * zone.key_range[2]>>>>
    \o <<<<GenVelRange, zone.vel_range[1] + 256 * zone.vel_range[2]>>>>
    \o zone.generators
    \o <<<<GenSampleID, zone.sample_id>>>>

\* bag records whose generator indices are non-negative and non-decreasing
BagsOrdered(bags) ==
    /\ \A i \in 1..Len(bags) : bags[i].gen >= 0
    /\ \A i \in 1..(Len(bags) - 1) : bags[i].gen <= bags[i + 1].gen

\* the generators between the indices of bag i and of bag i+1
BagSlice(bags, gens, i) == SubSeq(gens, bags[i].gen + 1, bags[i + 1].gen)

\* C6: for a non-empty set of samples, instruments and presets, the generator
\* indices of pbag and ibag are non-negative and non-decreasing, entries i and
\* i+1 delimit exactly the generators of zone i (2 per preset zone; key range,
\* velocity range, custom generators and sample reference per instrument
\* zone), and the sentinel's index is the number of generators before the
\* terminal generator.
C6_BagsDelimitGenerators ==
    (BankBuilt /\ writer.samples # <<>> /\ writer.instruments # <<>>
               /\ writer.presets # <<>>) =>
        /\ BagsOrdered(Bank.pbag)
        /\ Len(Bank.pbag) = Len(PresetZones(writer)) + 1
        /\ \A i \in 1..Len(PresetZones(writer)) :
              BagSlice(Bank.pbag, Bank.pgen, i) = PresetZoneOwns(PresetZones(writer)[i])
        /\ Bank.pbag[Len(Bank.pbag)].gen = Len(Bank.pgen) - 1
        /\ BagsOrdered(Bank.ibag)
        /\ Len(Bank.ibag) = Len(InstZones(writer)) + 1
        /\ \A i \in 1..Len(InstZones(writer)) :
              BagSlice(Bank.ibag, Bank.igen, i) = InstZoneOwns(InstZones(writer)[i])
        /\ Bank.ibag[Len(Bank.ibag)].gen = Len(Bank.igen) - 1

\* a bank of two or more instrument zones, one of them with a custom
\* generator, and of two or more preset zones has been built
C6_Witness ==
    /\ BankBuilt
    /\ writer.samples # <<>>
    /\ Len(PresetZones(writer)) >= 2
    /\ Len(InstZones(writer)) >= 2
    /\ \E i \in 1..Len(InstZones(writer)) : InstZones(writer)[i].generators # <<>>
    /\ Bank.ibag[Len(Bank.ibag)].gen >= 7

\* the audio add_sample was given for stored sample k
AudioOf(k) == SubSeq(writer.samples[k].data, 1, Len(writer.samples[k].data) - 2 * PadSamples)

RECURSIVE FramesBefore(_)
\* the sum over the samples before k of their frame count + 46
FramesBefore(k) ==
    IF k <= 1 THEN 0
    ELSE FramesBefore(k - 1) + (Len(AudioOf(k - 1)) \div 2) + PadSamples

\* C7: the header of the k-th sample has start = the sum over the earlier
\* samples of (frames + 46) and end = start + its frames, its payload begins
\* at byte 2*start of the smpl chunk, and 46 zero samples follow the payload.
C7_StartIsPayloadOffset ==
    BankBuilt =>
        \A k \in 1..Len(writer.samples) :
            LET h == Bank.shdr[k]
                audio == AudioOf(k)
            IN  /\ h.start = FramesBefore(k)
                /\ h.end = h.start + (Len(audio) \div 2)
                /\ SubSeq(Bank.smpl, 2 * h.start + 1, 2 * h.start + Len(audio)) = audio
                /\ SubSeq(Bank.smpl, 2 * h.start + Len(audio) + 1,
                          2 * h.start + Len(audio) + 2 * PadSamples)
                   = Zeros(2 * PadSamples)

\* C8: when the sample list or the preset list is empty, save/export reports
\* failure and no bank is built or written.
C8_EmptyBankRefused ==
    (sf_pc \in {"saved", "exported"}
        /\ (writer.samples = <<>> \/ writer.presets = <<>>)) =>
        /\ sf_ok = "False"
        /\ sf_file = <<>>

(***************************************************************************)
(* Properties of the multisample lookup and of the linking pass            *)
(***************************************************************************)
\* the zones, in table order, that contain the pair looked up
Containing ==
    {k \in 1..Len(ms_zones) : ZoneContains(ms_zones[k], ms_note[1], ms_note[2])}

\* C9: get_sample_for_note returns the sample of the earliest-declared zone
\* that contains (key, velocity); a later zone never wins over an earlier one.
C9_EarliestZoneWins ==
    (ms_pc = "looked" /\ ms_hit # 0) => ms_hit = SetMin(Containing)

\* C10: after the linking pass, every zone whose sample_index is within the
\* package's sample list finds the package's sample of that index at that
\* index of the multisample's samples.
C10_LinkResolvesIndex ==
    ms_pc \in {"linked", "looked"} =>
        \A k \in 1..Len(ms_zones) :
            LET si == ms_zones[k].sample_index
            IN  si < Len(pkg_samples) =>
                    /\ si < Len(ms_samples)
                    /\ ms_samples[si + 1] = pkg_samples[si + 1]

(***************************************************************************)
(* Properties of KMPParser.parse                                           *)
(***************************************************************************)
KmpZones == kmp_result[1].zones

\* the (header offset, record size) hypotheses whose count field is in 1..128
\* and whose table fits in the buffer
Hypotheses ==
    {h \in {32, 40, 48} \X {16, 20, 24, 32} :
        /\ h[1] + 2 <= Len(kmp_data)
        /\ U16LE(kmp_data, h[1]) \in 1..128
        /\ h[1] + 2 + U16LE(kmp_data, h[1]) * h[2] <= Len(kmp_data)}

\* the place of record i (0-based) of hypothesis h
RecordPos(h, i) == h[1] + 2 + i * h[2]

\* some record of h has low_key > high_key or a key above 127
HasBadRecord(h) ==
    \E i \in 0..(U16LE(kmp_data, h[1]) - 1) :
        \/ At(kmp_data, RecordPos(h, i)) > At(kmp_data, RecordPos(h, i) + 1)
        \/ At(kmp_data, RecordPos(h, i)) > 127
        \/ At(kmp_data, RecordPos(h, i) + 1) > 127

\* the zones are the records of h, an out-of-range root key replaced by the
\* midpoint of the key range
ZonesComeFrom(h) ==
    /\ Len(KmpZones) = U16LE(kmp_data, h[1])
    /\ \A k \in 1..Len(KmpZones) :
          LET pos == RecordPos(h, k - 1)
              root == At(kmp_data, pos + 2)
          IN  /\ KmpZones[k].low_key = At(kmp_data, pos)
              /\ KmpZones[k].high_key = At(kmp_data, pos + 1)
              /\ KmpZones[k].root_key =
                    IF root > 127
                    THEN (At(kmp_data, pos) + At(kmp_data, pos + 1)) \div 2
                    ELSE root

\* C12: KMPParser.parse returns a Multisample for every buffer, never None;
\* when no hypothesis validates, the result has exactly one zone, keys 0-127,
\* velocities 0-127, sample index 0.
C12_AlwaysAMultisample ==
    kmp_pc = "done" =>
        /\ kmp_result # <<>>
        /\ (\A h \in Hypotheses : HasBadRecord(h)) =>
              /\ Len(KmpZones) = 1
              /\ KmpZones[1].low_key = 0 /\ KmpZones[1].high_key = 127
              /\ KmpZones[1].low_velocity = 0 /\ KmpZones[1].high_velocity = 127
              /\ KmpZones[1].sample_index = 0

\* C18: every zone decoded from a zone table has low_key <= high_key <= 127
\* and root_key <= 127, an out-of-range root key being the midpoint of the key
\* range, and the zones never come from a hypothesis with a bad record.
C18_TableZonesValid ==
    (kmp_pc = "done" /\ kmp_result # <<>>) =>
        /\ \A k \in 1..Len(KmpZones) :
              /\ KmpZones[k].low_key <= KmpZones[k].high_key
              /\ KmpZones[k].high_key <= 127
              /\ KmpZones[k].root_key <= 127
        /\ \/ KmpZones = <<DefaultZone>>
           \/ \E h \in Hypotheses : ~HasBadRecord(h) /\ ZonesComeFrom(h)

\* two or more zones were decoded from a table whose root keys were out of
\* range, while another hypothesis that fits has a bad record
C18_Witness ==
    /\ kmp_pc = "done"
    /\ kmp_result # <<>>
    /\ Len(KmpZones) >= 2
    /\ \E h \in Hypotheses :
          /\ ~HasBadRecord(h)
          /\ ZonesComeFrom(h)
          /\ At(kmp_data, RecordPos(h, 0) + 2) > 127
          /\ KmpZones[1].root_key = 63
    /\ \E h \in Hypotheses : HasBadRecord(h)

\* C19: every KeyZone of a Multisample returned by KMPParser.parse has
\* low_velocity <= high_velocity <= 127.
C19_VelocitiesOrdered ==
    (kmp_pc = "done" /\ kmp_result # <<>>) =>
        \A k \in 1..Len(KmpZones) :
            /\ KmpZones[k].low_velocity <= KmpZones[k].high_velocity
            /\ KmpZones[k].high_velocity <= 127

(***************************************************************************)
(* Further properties of PCMParser.parse                                   *)
(***************************************************************************)
\* the block boundaries of the footer path: the offsets, then the footer-begin
\* position
Boundaries == ParseOffsetTable(data, KbegPos, KendPos) \o <<KbegPos>>

\* block i (from 1) is one parse makes a sample of
BlockDecoded(i) ==
    /\ Boundaries[i + 1] - Boundaries[i] > SAMPLE_HEADER_SIZE
    /\ Boundaries[i] < Len(data)

\* the big-endian audio bytes of block i
AudioBytesBE(i) == Slice(data, Boundaries[i] + SAMPLE_HEADER_SIZE, Boundaries[i + 1])

\* C16: for the big-endian audio bytes B of any sample block, of any length,
\* swapping the bytes twice gives B back: _swap_endian(_swap_endian(B)) = B.
C16_SwapTwiceRestores ==
    pcm_pc = "footer" =>
        \A i \in 1..(Len(Boundaries) - 1) :
            BlockDecoded(i) =>
                SwapEndian(SwapEndian(AudioBytesBE(i))) = AudioBytesBE(i)

PercussionKeywords ==
    {<<107, 105, 99, 107>>, <<115, 110, 97, 114, 101>>,
     <<99, 108, 111, 112, 111, 116, 101, 105>>}

\* a name that carries a percussion keyword, in either case
PercussionKeywordName(name) ==
    \E keyword \in PercussionKeywords : Contains(Lower(name), keyword)

\* C13: classify_sample returns the percussion role for every name that
\* carries a percussion keyword, "KICK1", "SNARE_Gby" and "CLOPOTEI" among
\* them, when called with no sibling context.
C13_KeywordNamesArePercussion ==
    (cl_calls >= 1 /\ cl_context = <<>> /\ PercussionKeywordName(cl_name)) =>
        cl_result[1].sample_type = DRUMKIT

\* the first pattern of MELODIC_PATTERNS that matches name
FirstNotePattern(name) ==
    SetMin({k \in 1..Len(MELODIC_PATTERNS) :
               Search(MELODIC_PATTERNS[k].re, name, FALSE) # <<>>})

\* no pattern of DRUM_PATTERNS matches name, and the result is the pitched
\* role with the note and octave of the first note pattern that matches
PitchedByFirstPattern(name, result) ==
    LET k == FirstNotePattern(name)
        first == NoteOf(name, k, Search(MELODIC_PATTERNS[k].re, name, FALSE)[1])
    IN  /\ \A j \in 1..Len(DRUM_PATTERNS) :
              Search(DRUM_PATTERNS[j], name, TRUE) = <<>>
        /\ result.sample_type = MELODIC
        /\ result.note = first.note
        /\ result.octave = first.octave

\* C14: classify_sample("Do 1 banat") is pitched with note "C" and
\* classify_sample("FLC4") is pitched with note "C" and octave 4; no
\* percussion pattern captures either name and the first note pattern that
\* matches supplies note and octave.
C14_PitchedExamples ==
    /\ (cl_calls >= 1 /\ cl_name = NameDo1Banat) =>
          /\ PitchedByFirstPattern(cl_name, cl_result[1])
          /\ cl_result[1].note = <<67>>
    /\ (cl_calls >= 1 /\ cl_name = NameFLC4) =>
          /\ PitchedByFirstPattern(cl_name, cl_result[1])
          /\ cl_result[1].note = <<67>>
          /\ cl_result[1].octave = 4

\* "FLC4" was classified among percussion siblings: note "C", octave 4, by the
\* ninth pattern, the flute one
C14_Witness ==
    /\ cl_calls >= 1
    /\ cl_name = NameFLC4
    /\ cl_context = <<NameKICK1, NameSNARE, NameX>>
    /\ cl_result[1] = [sample_type |-> MELODIC, note |-> <<67>>, octave |-> 4]
    /\ FirstNotePattern(cl_name) = 9

\* the fields classification sets
Classification(sample) ==
    <<sample.sample_type, sample.detected_note, sample.detected_octave>>

FoundByName(prog) == SelectSeq(lk_samples, LAMBDA s : NameMatches(prog, s))

FoundByPattern(prog) == PatternMatched(prog, lk_samples)

FoundByPrefix(prog) == SelectSeq(lk_samples, LAMBDA s : PrefixMatches(prog, s))

\* the link of the earliest pass that found a sample for prog; <<>> if none did
EarliestLink(prog) ==
    IF FoundByName(prog) # <<>>
    THEN <<ProgramSampleLink(prog, FoundByName(prog), 7, NAME_MATCH)>>
    ELSE IF FoundByPattern(prog) # <<>>
    THEN <<ProgramSampleLink(prog, FoundByPattern(prog), 5, PATTERN_MATCH)>>
    ELSE IF FoundByPrefix(prog) # <<>>
    THEN <<ProgramSampleLink(prog, FoundByPrefix(prog), 3, PREFIX_MATCH)>>
    ELSE <<>>

\* the (method, confidence) pairs of the three passes, confidence in tenths
PassPairs == {<<NAME_MATCH, 7>>, <<PATTERN_MATCH, 5>>, <<PREFIX_MATCH, 3>>}

\* C20: after link_all each program name has at most one link, the link's
\* (method, confidence) is (name_match, 0.7), (pattern_match, 0.5) or
\* (prefix_match, 0.3), and the link is that of the earliest of the three
\* passes that matched a sample: no later pass replaces or alters it.
C20_EarliestPassLinks ==
    lk_pc = "linked" =>
        /\ \A p \in DOMAIN lk_links :
              /\ \E k \in 1..Len(lk_programs) : lk_programs[k] = p
              /\ lk_links[p].program_name = p
              /\ <<lk_links[p].link_method, lk_links[p].confidence>> \in PassPairs
        /\ \A k \in 1..Len(lk_programs) :
              LET prog == lk_programs[k]
              IN  IF EarliestLink(prog) = <<>>
                  THEN prog \notin DOMAIN lk_links
                  ELSE /\ prog \in DOMAIN lk_links
                       /\ lk_links[prog] = EarliestLink(prog)[1]

\* two programs were linked, one by the name pass although the pattern pass
\* finds samples for it too, the other by a later pass
C20_Witness ==
    /\ lk_pc = "linked"
    /\ \E p \in DOMAIN lk_links :
          /\ lk_links[p].link_method = NAME_MATCH
          /\ FoundByPattern(p) # <<>>
          /\ FoundByPattern(p) # FoundByName(p)
    /\ \E p \in DOMAIN lk_links : lk_links[p].link_method # NAME_MATCH

(***************************************************************************)
(* Properties of the package dispatcher                                    *)
(***************************************************************************)
\* C11: the dispatcher returns a package for every input, never None: after
\* SetParser.parse on a byte buffer, and after parse_file or parse_folder on
\* a directory, the result is a SetPackage
C11_AlwaysAPackage ==
    /\ set_pc = "done"
    /\ set_op = "parse" \/ set_path.kind = "directory"
    => set_result # <<>> /\ set_raised = ""

(***************************************************************************)
(* Further properties of PCMParser                                         *)
(***************************************************************************)
\* the offset table parse reads from the footer of the container
SampleOffsets == ParseOffsetTable(data, KbegPos, KendPos)

\* two 32-bit values follow the footer-begin marker
TwoValuesFollow == KbegPos >= 0 /\ KbegPos + 12 <= Len(data)

FirstValue == U32BE(data, KbegPos + 4)

SecondValue == U32BE(data, KbegPos + 8)

\* strictly between 0x40 and footer_begin
PlausibleOffset(val) == MinOffset < val /\ val < KbegPos

DrumTableMatches(name) ==
    \E k \in 1..Len(DRUM_PATTERNS) : Search(DRUM_PATTERNS[k], name, TRUE) # <<>>

NoteTableMatches(name) ==
    \E k \in 1..Len(MELODIC_PATTERNS) :
        Search(MELODIC_PATTERNS[k].re, name, FALSE) # <<>>

InstrumentTableMatches(name) ==
    \E k \in 1..Len(MELODIC_INSTRUMENT_PATTERNS) :
        Search(MELODIC_INSTRUMENT_PATTERNS[k], name, TRUE) # <<>>

\* the name holds both "bass" and "drum", in any case
BassAndDrumName(name) ==
    Contains(Lower(name), TxtBass) /\ Contains(Lower(name), TxtDrum)

\* the result of the call is the result for every sibling list
SameForEverySiblingList ==
    \A context_samples \in ClsContexts :
        ClassifySample(cl_name, context_samples) = cl_result[1]

NoNote(role) == [sample_type |-> role, note |-> <<>>, octave |-> -1]

\* rules (a) and (b) in this order: a name a percussion pattern matches is
\* Percussion with empty note and octave -1; otherwise a name a note pattern
\* matches is Pitched with the note of the first pattern that matches
PercussionThenNote ==
    /\ DrumTableMatches(cl_name) => cl_result[1] = NoNote(DRUMKIT)
    /\ (~DrumTableMatches(cl_name) /\ NoteTableMatches(cl_name)) =>
          LET k == FirstNotePattern(cl_name)
              first == NoteOf(cl_name, k,
                              Search(MELODIC_PATTERNS[k].re, cl_name, FALSE)[1])
          IN  /\ cl_result[1].sample_type = MELODIC
              /\ cl_result[1].note = first.note
              /\ cl_result[1].note # <<>>

\* C22 as stated: the rules are evaluated in fixed order and the first match
\* wins; sibling context is consulted only when none of the three rule
\* tables matches, so a name matched by one of the tables gets the same
\* result for every sibling list.
C22_FirstMatchWins ==
    cl_calls >= 1 =>
        /\ PercussionThenNote
        /\ (~DrumTableMatches(cl_name) /\ ~NoteTableMatches(cl_name)
               /\ InstrumentTableMatches(cl_name)) => cl_result[1] = NoNote(MELODIC)
        /\ (DrumTableMatches(cl_name) \/ NoteTableMatches(cl_name)
               \/ InstrumentTableMatches(cl_name)) => SameForEverySiblingList

\* C22 amended: the rules are evaluated in fixed order and the first match
\* wins, where the instrument-keyword rule does not apply to a name that
\* holds both "bass" and "drum": such a name, when no percussion and no note
\* pattern matches it, is classified from its siblings like a name that
\* matches no table.  A name matched by rule (a), by rule (b), or by an
\* instrument keyword without holding both words gets the same result for
\* every sibling list.
C22_FirstMatchWinsBassDrumAside ==
    cl_calls >= 1 =>
        /\ PercussionThenNote
        /\ (~DrumTableMatches(cl_name) /\ ~NoteTableMatches(cl_name)
               /\ InstrumentTableMatches(cl_name) /\ ~BassAndDrumName(cl_name))
              => cl_result[1] = NoNote(MELODIC)
        /\ (~DrumTableMatches(cl_name) /\ ~NoteTableMatches(cl_name)
               /\ InstrumentTableMatches(cl_name) /\ BassAndDrumName(cl_name))
              => cl_result[1] =
                    NoNote(IF cl_context = <<>> THEN UNKNOWN
                           ELSE InferFromContext(cl_name, cl_context))
        /\ (DrumTableMatches(cl_name) \/ NoteTableMatches(cl_name)
               \/ (InstrumentTableMatches(cl_name) /\ ~BassAndDrumName(cl_name)))
              => SameForEverySiblingList

\* "KICK C4", which a note pattern matches too, was classified among pitched
\* siblings and is Percussion
C22_Witness ==
    /\ cl_calls >= 1
    /\ cl_name = NameKickC4
    /\ cl_context = <<NameDo1Banat, NameFLC4, NameX>>
    /\ NoteTableMatches(cl_name)
    /\ cl_result[1] = NoNote(DRUMKIT)

\* the siblings that classify as role on their own, under rules (a)-(c)
SiblingsOfRole(role) ==
    Cardinality({k \in 1..Len(cl_context) :
                    ClassifySample(cl_context[k], <<>>).sample_type = role})

\* C23: when a name matches none of the rule tables and sibling names are
\* supplied, classify_sample returns Percussion if strictly more siblings
\* classify as Percussion than as Pitched under rules (a)-(c), Pitched if
\* strictly more classify as Pitched, and Unknown on a tie or when no sibling
\* classifies; note is empty and octave is -1 in all three cases.
C23_MajorityOfSiblings ==
    (/\ cl_calls >= 1
     /\ cl_context # <<>>
     /\ ~DrumTableMatches(cl_name)
     /\ ~NoteTableMatches(cl_name)
     /\ ~InstrumentTableMatches(cl_name))
    => cl_result[1] =
          NoNote(IF SiblingsOfRole(DRUMKIT) > SiblingsOfRole(MELODIC) THEN DRUMKIT
                 ELSE IF SiblingsOfRole(MELODIC) > SiblingsOfRole(DRUMKIT) THEN MELODIC
                 ELSE UNKNOWN)

\* "SNARE_Gby", which no table matches, was classified next to one percussion
\* and one pitched sibling: a tie, and the role is Unknown
C23_Witness ==
    /\ cl_calls >= 1
    /\ cl_name = NameSNARE_Gby
    /\ cl_context = <<NameKICK1, NameFLC4>>
    /\ SiblingsOfRole(DRUMKIT) = 1
    /\ SiblingsOfRole(MELODIC) = 1
    /\ cl_result[1] = NoNote(UNKNOWN)

(***************************************************************************)
(* Further properties of KMPParser.parse                                   *)
(***************************************************************************)
\* the hypotheses that validate: the count field is in 1..128, the table fits
\* in the buffer and no record is bad
ValidHypotheses == {h \in Hypotheses : ~HasBadRecord(h)}

\* declaration order: header offsets 32, 40, 48 and, within each, record sizes
\* 16, 20, 24, 32
DeclaredBefore(g, h) == g[1] < h[1] \/ (g[1] = h[1] /\ g[2] < h[2])

FirstValidHypothesis ==
    CHOOSE h \in ValidHypotheses :
        \A g \in ValidHypotheses : g = h \/ DeclaredBefore(h, g)

\* the zones are those of the first hypothesis that validates, and the
\* default full-range zone when none does
FirstHypothesisWins ==
    IF ValidHypotheses = {} THEN KmpZones = <<DefaultZone>>
    ELSE /\ ZonesComeFrom(FirstValidHypothesis)
         /\ KmpZones # <<DefaultZone>>

\* the buffer begins with one of the signatures of KMPParser
HasKmpSignature == Slice(kmp_data, 0, 4) \in {KMP1, MSP1, kmp1}

\* C24 as stated: for every input buffer of at least 32 bytes, parse returns
\* the zones of the first hypothesis, in declaration order, whose count field
\* is in 1..128, whose table fits in the buffer and whose records all
\* validate, and the default full-range zone only when no hypothesis
\* validates.
C24_FirstHypothesisEveryBuffer ==
    (kmp_pc = "done" /\ Len(kmp_data) >= MinKmpLen) =>
        (kmp_result # <<>> /\ FirstHypothesisWins)

\* C24 amended: for every input buffer of at least 32 bytes that begins with
\* one of the signatures KMP1, MSP1, kmp1, parse returns the zones of the
\* first hypothesis, in declaration order, that validates, and the default
\* full-range zone only when no hypothesis validates; a buffer of at least 32
\* bytes that begins with none of the signatures gets the default full-range
\* zone whatever its content.
C24_FirstHypothesisSignedBuffer ==
    (kmp_pc = "done" /\ Len(kmp_data) >= MinKmpLen) =>
        /\ kmp_result # <<>>
        /\ HasKmpSignature => FirstHypothesisWins
        /\ ~HasKmpSignature => KmpZones = <<DefaultZone>>

\* a signed buffer was parsed in which two record sizes validate at the same
\* header offset and give different zones: the zones are those of the size
\* declared first
C24_Witness ==
    /\ kmp_pc = "done"
    /\ HasKmpSignature
    /\ \E g \in ValidHypotheses, h \in ValidHypotheses :
          /\ DeclaredBefore(g, h)
          /\ ZonesComeFrom(g)
          /\ ~ZonesComeFrom(h)

(***************************************************************************)
(* Properties of PCGParser.parse                                           *)
(***************************************************************************)
\* C25: no Program returned by the program-bank decoder, on the chunk path
\* or on the fallback scan, has a name that is shorter than 3 characters,
\* contains no alphabetic character, or is dominated by non-alphanumeric
\* symbols.
C25_NoNoiseNames ==
    pcg_pc = "done" =>
        \A k \in 1..Len(pcg_result) : IsValidName(pcg_result[k].name)

(***************************************************************************)
(* Properties of the signature scan                                        *)
(***************************************************************************)
\* the files of the returned package that _scan_for_embedded_files made: it
\* names them embedded_NNN.ext, a name no table entry of the packages has
ScannedFiles ==
    IF set_result = <<>> THEN <<>>
    ELSE SelectSeq(set_result[1].embedded_files,
                   LAMBDA f : StartsWith(f.name, TxtEmbedded))

\* a signature of ScanSignatures occurs at pos
SignatureAt(d, pos) ==
    \E k \in 1..Len(ScanSignatures) : MatchAt(d, ScanSignatures[k][1], pos)

\* C26: the embedded files produced by the signature scan are ordered by
\* offset, each begins at an occurrence of a known embedded-format signature,
\* consecutive files are contiguous and non-overlapping (offset_i + size_i =
\* offset_{i+1}), and the last file ends at the end of the buffer
C26_ScannedFilesTile ==
    set_pc = "done" /\ set_path.kind = "file" /\ ScannedFiles # <<>> =>
        LET files == ScannedFiles
            d == set_path.data
        IN  /\ \A i \in 1..Len(files) :
                  /\ SignatureAt(d, files[i].offset)
                  /\ files[i].size > 0
                  /\ files[i].data = <<Slice(d, files[i].offset,
                                             files[i].offset + files[i].size)>>
            /\ \A i \in 1..(Len(files) - 1) :
                  /\ files[i].offset < files[i + 1].offset
                  /\ files[i].offset + files[i].size = files[i + 1].offset
            /\ files[Len(files)].offset + files[Len(files)].size = Len(d)

\* a package came out of the scan with two files, the first of which ends
\* where the second begins
C26_Witness ==
    /\ set_pc = "done"
    /\ set_path.kind = "file"
    /\ Len(ScannedFiles) >= 2
    /\ ScannedFiles[1].offset > 0
    /\ ScannedFiles[1].offset + ScannedFiles[1].size = ScannedFiles[2].offset

(***************************************************************************)
(* Properties of the scan loops                                            *)
(***************************************************************************)
\* a step that is an iteration of a loop
IsIteration == scan_pc = "loop" /\ scan_pc' = "loop" /\ scan_kind' = scan_kind

\* the program chunk at the front of the buffer declares size 0 or a size
\* that runs past the end of the buffer
FirstChunkBadSize ==
    /\ Slice(scan_data, 4, 8) \in ProgramChunkIds
    /\ \/ U32LE(scan_data, 8) = 0
       \/ 12 + U32LE(scan_data, 8) > Len(scan_data)

\* C27: every decode call terminates on every finite buffer: the program-bank
\* chunk scan, the fallback ASCII-run scan and the sample-name scan strictly
\* advance their cursor on every iteration, including when a chunk declares
\* size 0 or a size that runs past the end of the buffer
C27_ScansAdvanceAndEnd ==
    /\ [][IsIteration => scan_pos' > scan_pos]_vars
    /\ <>(scan_pc = "done")

\* the chunk scan has ended on a buffer whose first program chunk declares
\* size 0 or a size past the end
C27_Witness ==
    /\ scan_pc = "done"
    /\ scan_kind = "chunks"
    /\ FirstChunkBadSize
    /\ scan_pos >= Len(scan_data) - 8
    /\ scan_count > 0

(***************************************************************************)
(* Further properties of SF2Writer                                         *)
(***************************************************************************)
\* a step that is a save right after a save, both of which wrote the file
SavedAgain ==
    /\ sf_pc = "saved"
    /\ sf_ok = "True"
    /\ sf_pc' = "saved"
    /\ sf_ok' = "True"
    /\ sf_calls' = sf_calls + 1

\* C28: building the bank is idempotent: SF2Writer.save called twice on the
\* same writer with no add_sample, add_instrument or add_preset call in
\* between writes the same bytes both times
C28_SaveTwiceSameFile ==
    [][SavedAgain => sf_file' = sf_file]_vars

(***************************************************************************)
(* Properties of AudioPlayer                                               *)
(***************************************************************************)
\* the sound of the first play_sample call has played to its end
FirstSoundEnded == 1 \in ap_ended

\* the player is stopped and the callback, if one is set, has run
StoppedAndNotified ==
    /\ ap_state = "STOPPED"
    /\ ap_has_callback => ap_notified[1] > 0

\* C29: after a non-looping play_sample has started, once the mixer channel
\* is no longer busy the player state eventually becomes STOPPED and the
\* completion callback is invoked, for every interleaving of pause() and
\* resume() calls issued before the sound finishes
C29_EndedLeadsToStopped ==
    FirstSoundEnded ~> StoppedAndNotified

\* C30: the playback-complete callback runs at most once per finished
\* playback, also when play_sample is called again while the monitor thread
\* of the previous playback is still alive
C30_CallbackAtMostOnce ==
    \A i \in DOMAIN ap_notified : ap_notified[i] <= 1

====
